---- MODULE Spec2Model ----
(***************************************************************************)
(* Cat-OS microkernel: process table, round-robin scheduler, per-PID       *)
(* mailboxes, the physical frame bitmap and the page tables, modelled from *)
(* src/kernel.                                                             *)
(*                                                                         *)
(* The kernel globals are the variables.  Every C function is an operator  *)
(* from a record k of all globals to the record after the call (and its    *)
(* return value where it has one); every action is one kernel entry point. *)
(* A pointer to a PCB is its slot number 1..MAX_PROCESSES                  *)
(* (&process_table[slot-1]); a physical address is its frame number; NULL  *)
(* is 0 for both, as in C.                                                 *)
(***************************************************************************)
EXTENDS Integers, Sequences, FiniteSets, TLC

\* ---------------------------------------------------------------- bounds
\* Sizes of the kernel tables, scaled down from the source values
\* (64 PCB slots, 4096 frames of which 1024 are kernel, 100 messages per
\* mailbox, quantum of 10 ticks, 1024 entries per page table, 16 pages per
\* service image), and caps on the unbounded counters.
MAX_PROCESSES == 3
PAGE_COUNT == 27
KERNEL_PAGES == 1
QUEUE_MAX_COUNT == 2
TIME_QUANTUM == 2
MaxTicks == 2
MaxMsgId == 3
MaxIpcMsgId == 4
MaxCreates == 2
MaxProcCreates == 3
MaxIpcCreates == 2
TABLE_ENTRIES == 4
pages_needed == 1
MaxMemCreates == 2
MaxMemFrames == 14
MaxTrapCreates == 4
MaxLifeCreates == 2
MaxLifeMsgId == 2
TickQuanta == 2
MaxCpuTime == 2
MaxFairCreates == 2

\* ------------------------------------------------------ program constants
NULL == 0
KERNEL_STACK_PAGES == 2
USER_STACK_PAGES == 4
MAX_DATA_SIZE == 256

PROCESS_CREATED == 0
PROCESS_READY == 1
PROCESS_RUNNING == 2
PROCESS_BLOCKED == 3
PROCESS_TERMINATED == 4

STATUS_SUCCESS == 0
STATUS_ERROR == -1
STATUS_INVALID_PARAM == -2
STATUS_OUT_OF_MEMORY == -3
STATUS_PERMISSION_DENIED == -4
STATUS_NOT_FOUND == -5
STATUS_NOT_IMPLEMENTED == -8

CAP_PROCESS == 0
CAP_MEMORY == 1
CAP_DRIVER == 2
CAP_SYSTEM == 4
CAP_IPC == 5

PERM_READ == 1
PERM_WRITE == 2
PERM_CREATE == 8
PERM_DELETE == 16
PERM_ALLOC == 64
PERM_FREE == 128

PAGE_SIZE == 4096
PAGE_PRESENT == 1
PAGE_USER == 4
KERNEL_RW == 3
USER_RW == 7

SYS_PROCESS_CREATE == 1
SYS_PROCESS_EXIT == 2
SYS_PROCESS_YIELD == 3
SYS_PROCESS_KILL == 4
SYS_MEMORY_ALLOC == 16
SYS_MEMORY_FREE == 17
SYS_MEMORY_MAP == 18
SYS_IPC_SEND == 32
SYS_IPC_RECEIVE == 33
SYS_IPC_REGISTER == 34
SYS_DRIVER_REGISTER == 48
SYS_DRIVER_REQUEST == 49
SYS_SYSTEM_SHUTDOWN == 64

MSG_DATA == 1
MSG_SIGNAL == 3
MSG_RESPONSE == 4

Slots == 1..MAX_PROCESSES
Pids == 0..(MAX_PROCESSES - 1)
Frames == 0..(PAGE_COUNT - 1)

VARIABLES
    process_used,       \* process.c: process_used[]
    process_table,      \* process.c: process_table[]
    alloc_next_pid,     \* process.c: static next_pid of process_allocate_pid
    current_process,    \* scheduler.c
    ready_queue_head,   \* scheduler.c
    ready_queue_tail,   \* scheduler.c
    next_pid,           \* scheduler.c
    scheduler_ticks,    \* scheduler.c
    message_queues,     \* ipc.c: message_queues[pid], NULL or a queue header
    next_msg_id,        \* ipc.c
    memory_bitmap,      \* memory.c: the set of frames whose bit is set
    kernel_page_dir,    \* memory.c
    page_tables,        \* physical memory read as page directories and page
                        \* tables: <<f, i, e>> when entry i of frame f holds
                        \* e # 0 (every other entry holds 0)
    capabilities,       \* capability.c: the capability records in the table
    next_cap_id,        \* capability.c
    cr3,                \* hal/cpu.c: the CR3 register, a frame number
    tss_esp0,           \* hal/gdt.c: tss_entry.esp0, in pages
    created,            \* history: number of process_create calls so far
    recvLog,            \* history: recvLog[r][s], the msg_ids that ipc_receive
                        \* has delivered to PID r from sender PID s, in order
    sentBy,             \* history: sentBy[id], the PID of the task that was
                        \* current when ipc_send numbered message id
    panicked            \* main.c: the CPU is in the hlt loop of kernel_panic

kvars == <<process_used, process_table, alloc_next_pid, current_process,
           ready_queue_head, ready_queue_tail, next_pid, scheduler_ticks,
           message_queues, next_msg_id, memory_bitmap, kernel_page_dir,
           page_tables, capabilities, next_cap_id, cr3, tss_esp0>>

vars == <<process_used, process_table, alloc_next_pid, current_process,
          ready_queue_head, ready_queue_tail, next_pid, scheduler_ticks,
          message_queues, next_msg_id, memory_bitmap, kernel_page_dir,
          page_tables, capabilities, next_cap_id, cr3, tss_esp0, created,
          recvLog, sentBy, panicked>>

\* The kernel globals as one record.
K ==
    [process_used |-> process_used, process_table |-> process_table,
     alloc_next_pid |-> alloc_next_pid, current_process |-> current_process,
     ready_queue_head |-> ready_queue_head,
     ready_queue_tail |-> ready_queue_tail, next_pid |-> next_pid,
     scheduler_ticks |-> scheduler_ticks, message_queues |-> message_queues,
     next_msg_id |-> next_msg_id, memory_bitmap |-> memory_bitmap,
     kernel_page_dir |-> kernel_page_dir, page_tables |-> page_tables,
     capabilities |-> capabilities, next_cap_id |-> next_cap_id,
     cr3 |-> cr3, tss_esp0 |-> tss_esp0]

\* sentBy after a step that ends with the globals of record k: the messages
\* numbered in the step were sent while the task current before it ran.
Sent(k) ==
    sentBy \o [i \in 1..(k.next_msg_id - next_msg_id) |->
                  IF current_process = NULL THEN 0
                  ELSE process_table[current_process].pid]

\* The globals after the step are those of record k; panic tells whether
\* the step ended in kernel_panic.
StepsTo(k, panic) ==
    /\ panicked' = panic
    /\ sentBy' = Sent(k)
    /\ process_used' = k.process_used
    /\ process_table' = k.process_table
    /\ alloc_next_pid' = k.alloc_next_pid
    /\ current_process' = k.current_process
    /\ ready_queue_head' = k.ready_queue_head
    /\ ready_queue_tail' = k.ready_queue_tail
    /\ next_pid' = k.next_pid
    /\ scheduler_ticks' = k.scheduler_ticks
    /\ message_queues' = k.message_queues
    /\ next_msg_id' = k.next_msg_id
    /\ memory_bitmap' = k.memory_bitmap
    /\ kernel_page_dir' = k.kernel_page_dir
    /\ page_tables' = k.page_tables
    /\ capabilities' = k.capabilities
    /\ next_cap_id' = k.next_cap_id
    /\ cr3' = k.cr3
    /\ tss_esp0' = k.tss_esp0

\* A step that returns from the kernel.
Becomes(k) == StepsTo(k, FALSE)

\* A zeroed pcb_t (memset 0).  saved_esp is registers[4], the saved stack
\* pointer, as the number of the page it points into.
ZeroPCB ==
    [pid |-> 0, parent_pid |-> 0, state |-> PROCESS_CREATED, priority |-> 0,
     cpu_time |-> 0, page_directory |-> NULL, kernel_stack |-> NULL,
     user_stack |-> NULL, capabilities |-> 0, exit_code |-> 0,
     waiting_for |-> 0, next |-> NULL, prev |-> NULL, saved_esp |-> 0]

\* =================================================================
\* memory.c
\* =================================================================

bitmap_test_bit(k, page) == page \in k.memory_bitmap

bitmap_set_bit(k, page) ==
    [k EXCEPT !.memory_bitmap = @ \cup {page}]

bitmap_clear_bit(k, page) ==
    [k EXCEPT !.memory_bitmap = @ \ {page}]

\* First clear bit of the bitmap, or -1 when every bit is set (the code's
\* 0xFFFFFFFF, which memory_alloc_physical turns into NULL).  Frame 0, when
\* it is free, is allocated and its address returned: that address is NULL.
RECURSIVE FindFreeFrom(_, _)
FindFreeFrom(k, i) ==
    IF i >= PAGE_COUNT THEN -1
    ELSE IF ~bitmap_test_bit(k, i) THEN i
    ELSE FindFreeFrom(k, i + 1)

bitmap_find_free(k) == FindFreeFrom(k, 0)

memory_alloc_physical(k) ==
    LET page == bitmap_find_free(k) IN
    IF page = -1 THEN [k |-> k, ret |-> NULL]
    ELSE [k |-> bitmap_set_bit(k, page), ret |-> page]

memory_free_physical(k, addr) ==
    IF bitmap_test_bit(k, addr) THEN bitmap_clear_bit(k, addr) ELSE k

\* The first-fit scan of memory_alloc_pages: base of the first run of count
\* clear bits, or -1 when the loop ends without one.
RECURSIVE AllocScan(_, _, _, _, _)
AllocScan(k, i, start_page, found_pages, count) ==
    IF i >= PAGE_COUNT THEN -1
    ELSE IF ~bitmap_test_bit(k, i)
         THEN LET s == IF found_pages = 0 THEN i ELSE start_page IN
              IF found_pages + 1 = count THEN s
              ELSE AllocScan(k, i + 1, s, found_pages + 1, count)
         ELSE AllocScan(k, i + 1, start_page, 0, count)

\* memory_alloc_pages that starts the block at the first free frame without
\* looking at the frames that follow it.
memory_alloc_pages_first_free(k, count) ==
    LET base == bitmap_find_free(k) IN
    IF base = -1 THEN [k |-> k, ret |-> NULL]
    ELSE [k |-> [k EXCEPT !.memory_bitmap =
                     @ \cup {j \in Frames : j >= base /\ j < base + count}],
          ret |-> base]

memory_alloc_pages(k, count) ==
    LET base == AllocScan(k, 0, 0, 0, count) IN
    IF base = -1 THEN [k |-> k, ret |-> NULL]
    ELSE [k |-> [k EXCEPT !.memory_bitmap =
                     @ \cup {j \in Frames : j >= base /\ j < base + count}],
          ret |-> base]

RECURSIVE memory_free_pages(_, _, _)
memory_free_pages(k, addr, count) ==
    IF count = 0 THEN k
    ELSE memory_free_pages(memory_free_physical(k, addr), addr + 1, count - 1)

\* Entry i of the table in frame f.
ReadEntry(k, f, i) ==
    LET s == {t \in k.page_tables : t[1] = f /\ t[2] = i} IN
    IF s = {} THEN 0 ELSE (CHOOSE t \in s : TRUE)[3]

\* table[i] = e for the table in frame f.
WriteEntry(k, f, i, e) ==
    [k EXCEPT !.page_tables =
        {t \in @ : ~(t[1] = f /\ t[2] = i)}
        \cup (IF e = 0 THEN {} ELSE {<<f, i, e>>})]

\* The loops that zero the 1024 entries of a table.
ClearTable(k, f) ==
    [k EXCEPT !.page_tables = {t \in @ : t[1] # f}]

\* entry & 0x01
EntryPresent(e) == e % 2 = PAGE_PRESENT

\* The user/supervisor bit of an entry.
EntryUser(e) == (e \div PAGE_USER) % 2 = 1

\* entry & 0xFFFFF000, as a frame number.
EntryFrame(e) == e \div PAGE_SIZE

memory_create_page_directory(k) ==
    LET a == memory_alloc_physical(k) IN
    IF a.ret = NULL THEN [k |-> a.k, ret |-> 0]
    ELSE [k |-> ClearTable(a.k, a.ret), ret |-> a.ret]

\* Frees the page table of every present entry, then the directory.
memory_destroy_page_directory(k, page_dir) ==
    LET tables == {EntryFrame(t[3]) :
                      t \in {u \in k.page_tables :
                                u[1] = page_dir /\ EntryPresent(u[3])}}
    IN [k EXCEPT !.memory_bitmap = (@ \ tables) \ {page_dir}]

\* virt_addr is a virtual page number: virt_addr >> 22 is its quotient by
\* TABLE_ENTRIES and (virt_addr >> 12) & 0x3FF the remainder.  phys_addr is
\* a frame number and flags is below PAGE_SIZE, so that phys_addr | flags
\* is a sum.
memory_map_page(k, page_dir, virt_addr, phys_addr, flags) ==
    LET pd_index == virt_addr \div TABLE_ENTRIES
        pt_index == virt_addr % TABLE_ENTRIES
        a == memory_alloc_physical(k)
        k1 == IF EntryPresent(ReadEntry(k, page_dir, pd_index)) THEN k
              ELSE WriteEntry(ClearTable(a.k, a.ret), page_dir, pd_index,
                              a.ret * PAGE_SIZE + KERNEL_RW)
        pt == EntryFrame(ReadEntry(k1, page_dir, pd_index))
    IN
    IF ~EntryPresent(ReadEntry(k, page_dir, pd_index)) /\ a.ret = NULL
    THEN a.k
    ELSE WriteEntry(k1, pt, pt_index, phys_addr * PAGE_SIZE + flags)

memory_unmap_page(k, page_dir, virt_addr) ==
    LET pd_index == virt_addr \div TABLE_ENTRIES
        pt_index == virt_addr % TABLE_ENTRIES
        pde == ReadEntry(k, page_dir, pd_index)
    IN
    IF ~EntryPresent(pde) THEN k
    ELSE WriteEntry(k, EntryFrame(pde), pt_index, 0)

\* =================================================================
\* scheduler.c
\* =================================================================

scheduler_get_current(k) == k.current_process

scheduler_remove_from_ready(k, process) ==
    IF process = NULL THEN k
    ELSE
    LET p0 == k.process_table
        k1 == IF p0[process].prev # NULL
              THEN [k EXCEPT !.process_table[p0[process].prev].next =
                                 p0[process].next]
              ELSE [k EXCEPT !.ready_queue_head = p0[process].next]
        p1 == k1.process_table
        k2 == IF p1[process].next # NULL
              THEN [k1 EXCEPT !.process_table[p1[process].next].prev =
                                  p1[process].prev]
              ELSE [k1 EXCEPT !.ready_queue_tail = p1[process].prev]
    IN [k2 EXCEPT !.process_table[process].next = NULL,
                  !.process_table[process].prev = NULL]

scheduler_add_to_ready(k, process) ==
    IF process = NULL THEN k
    ELSE
    LET k1 == scheduler_remove_from_ready(k, process) IN
    IF k1.ready_queue_head = NULL
    THEN [k1 EXCEPT !.ready_queue_head = process,
                    !.ready_queue_tail = process,
                    !.process_table[process].next = NULL,
                    !.process_table[process].prev = NULL]
    ELSE LET k2 == [k1 EXCEPT
                       !.process_table[k1.ready_queue_tail].next = process]
         IN [k2 EXCEPT !.process_table[process].prev = k1.ready_queue_tail,
                       !.process_table[process].next = NULL,
                       !.ready_queue_tail = process]

\* The page the stack pointer lies in while the kernel serves a trap from
\* ring 3: the CPU loaded esp from TSS.esp0 and pushed the trap frame below
\* it (page numbers have 20 bits).
TrapStackPage(k) == (k.tss_esp0 - 1) % 1048576

\* Of the registers only the stack pointer is kept.  A task that is switched
\* away from entered the kernel by a trap from ring 3, so the stack pointer
\* saved for it is the one of that trap.
context_switch(k, from, to) ==
    IF to = NULL THEN k
    ELSE
    LET k1 == IF from # NULL
              THEN [k EXCEPT !.process_table[from].saved_esp =
                                 TrapStackPage(k)]
              ELSE k
    IN IF k1.process_table[to].page_directory # NULL
       THEN [k1 EXCEPT !.cr3 = k1.process_table[to].page_directory]
       ELSE k1

scheduler_switch_to(k, next) ==
    LET prev == k.current_process
        k1 == [k EXCEPT !.current_process = next,
                        !.process_table[next].state = PROCESS_RUNNING]
    IN IF prev # next THEN context_switch(k1, prev, next) ELSE k1

scheduler_yield(k) ==
    IF k.ready_queue_head = NULL
    THEN [k EXCEPT !.current_process = NULL]
    ELSE
    LET cur == k.current_process
        k1 == IF cur # NULL /\ k.process_table[cur].state = PROCESS_READY
              THEN scheduler_add_to_ready(
                       scheduler_remove_from_ready(k, cur), cur)
              ELSE k
        next_process == k1.ready_queue_head
        k2 == scheduler_remove_from_ready(k1, next_process)
    IN scheduler_switch_to(k2, next_process)

scheduler_add_process(k, process) ==
    IF process = NULL THEN k
    ELSE
    LET k1 == IF k.process_table[process].pid = 0
              THEN [k EXCEPT !.process_table[process].pid = k.next_pid,
                             !.next_pid = k.next_pid + 1]
              ELSE k
        k2 == scheduler_add_to_ready(k1, process)
    IN [k2 EXCEPT !.process_table[process].state = PROCESS_READY]

scheduler_remove_process(k, process) ==
    IF process = NULL THEN k
    ELSE
    LET k1 == scheduler_remove_from_ready(k, process) IN
    IF process = k1.current_process
    THEN scheduler_yield([k1 EXCEPT !.current_process = NULL])
    ELSE k1

\* scheduler_tick that yields on the multiples of TIME_QUANTUM only.
scheduler_tick_quantum_only(k) ==
    LET k1 == [k EXCEPT !.scheduler_ticks = @ + 1]
        k2 == IF k1.current_process = NULL THEN k1
              ELSE [k1 EXCEPT
                       !.process_table[k1.current_process].cpu_time = @ + 1]
    IN IF k2.scheduler_ticks % TIME_QUANTUM = 0 THEN scheduler_yield(k2)
       ELSE k2

scheduler_tick(k) ==
    LET k1 == [k EXCEPT !.scheduler_ticks = @ + 1] IN
    IF k1.current_process = NULL THEN scheduler_yield(k1)
    ELSE
    LET k2 == [k1 EXCEPT !.process_table[k1.current_process].cpu_time = @ + 1]
    IN IF k2.scheduler_ticks % TIME_QUANTUM = 0 THEN scheduler_yield(k2)
       ELSE k2

\* The walk of scheduler_find_process along the next links from the head.
\* Fuel bounds the walk at the number of PCBs there are.
RECURSIVE FindInReady(_, _, _, _)
FindInReady(k, cur, pid, fuel) ==
    IF cur = NULL \/ fuel = 0 THEN NULL
    ELSE IF k.process_table[cur].pid = pid THEN cur
    ELSE FindInReady(k, k.process_table[cur].next, pid, fuel - 1)

scheduler_find_process(k, pid) ==
    LET q == FindInReady(k, k.ready_queue_head, pid, MAX_PROCESSES) IN
    IF q # NULL THEN q
    ELSE IF k.current_process # NULL
            /\ k.process_table[k.current_process].pid = pid
         THEN k.current_process
         ELSE NULL

scheduler_unblock_process(k, process) ==
    IF process # NULL /\ k.process_table[process].state = PROCESS_BLOCKED
    THEN scheduler_add_to_ready(
             [k EXCEPT !.process_table[process].state = PROCESS_READY],
             process)
    ELSE k

scheduler_block_current(k) ==
    IF k.current_process # NULL
    THEN scheduler_yield(
             [k EXCEPT !.process_table[k.current_process].state =
                           PROCESS_BLOCKED])
    ELSE k


\* =================================================================
\* capability.c
\* =================================================================

\* Bitwise and / exclusive or of two naturals (the C operators & and ^).
RECURSIVE BitAnd(_, _)
BitAnd(a, b) ==
    IF a = 0 \/ b = 0 THEN 0
    ELSE (a % 2) * (b % 2) + 2 * BitAnd(a \div 2, b \div 2)

RECURSIVE BitXor(_, _)
BitXor(a, b) ==
    IF a = 0 THEN b
    ELSE IF b = 0 THEN a
    ELSE (((a % 2) + (b % 2)) % 2) + 2 * BitXor(a \div 2, b \div 2)

CapChecksum(cap) ==
    BitXor(BitXor(BitXor(BitXor(BitXor(cap.cap_id, cap.owner_pid),
        cap.cap_type), cap.permissions), cap.resource_id),
        cap.expiration_time)

capability_verify_signature(cap) == CapChecksum(cap) = cap.signature

capability_generate_signature(cap) ==
    [cap EXCEPT !.signature = CapChecksum(cap)]

\* The table is searched for any matching entry, so its order does not
\* matter: it is the set of its non-NULL entries.  Returns the new record in
\* ret.cap (ret.ok tells whether one was created).
capability_create(k, owner_pid, cap_type, permissions) ==
    IF Cardinality(k.capabilities) >= MAX_PROCESSES * 16
    THEN [k |-> k, ok |-> FALSE, cap_id |-> 0]
    ELSE
    LET a == memory_alloc_pages(k, 1) IN
    IF a.ret = NULL THEN [k |-> a.k, ok |-> FALSE, cap_id |-> 0]
    ELSE
    LET cap == capability_generate_signature(
                   [cap_id |-> k.next_cap_id, owner_pid |-> owner_pid,
                    cap_type |-> cap_type, permissions |-> permissions,
                    resource_id |-> 0, expiration_time |-> 0,
                    signature |-> 0, frame |-> a.ret])
    IN [k |-> [a.k EXCEPT !.next_cap_id = @ + 1,
                          !.capabilities = @ \cup {cap}],
        ok |-> TRUE, cap_id |-> cap.cap_id]

\* hal_timer_get_ticks advances with scheduler_ticks (hal/timer.c:67-71).
capability_check(k, pid, cap_type, permissions) ==
    IF \E cap \in k.capabilities :
          /\ cap.owner_pid = pid
          /\ cap.cap_type = cap_type
          /\ BitAnd(cap.permissions, permissions) = permissions
          /\ (cap.expiration_time = 0
                \/ cap.expiration_time > k.scheduler_ticks)
          /\ capability_verify_signature(cap)
    THEN STATUS_SUCCESS
    ELSE STATUS_PERMISSION_DENIED

capability_destroy(k, cap) ==
    memory_free_pages([k EXCEPT !.capabilities = @ \ {cap}], cap.frame, 1)

capability_grant(k, pid, cap_type, permissions, resource_id) ==
    IF k.current_process = NULL
    THEN [k |-> k, ret |-> STATUS_PERMISSION_DENIED]
    ELSE IF k.process_table[k.current_process].pid # 0
    THEN [k |-> k, ret |-> STATUS_PERMISSION_DENIED]
    ELSE
    LET c == capability_create(k, pid, cap_type, permissions) IN
    IF ~c.ok THEN [k |-> c.k, ret |-> STATUS_OUT_OF_MEMORY]
    ELSE [k |-> [c.k EXCEPT !.capabilities =
                     {IF cap.cap_id = c.cap_id
                      THEN [cap EXCEPT !.resource_id = resource_id]
                      ELSE cap : cap \in @}],
          ret |-> STATUS_SUCCESS]

RECURSIVE DestroyAll(_, _)
DestroyAll(k, caps) ==
    IF caps = {} THEN k
    ELSE LET cap == CHOOSE c \in caps : TRUE
         IN DestroyAll(capability_destroy(k, cap), caps \ {cap})

capability_revoke(k, pid, cap_type, resource_id) ==
    IF k.current_process = NULL
    THEN [k |-> k, ret |-> STATUS_PERMISSION_DENIED]
    ELSE IF k.process_table[k.current_process].pid # 0
    THEN [k |-> k, ret |-> STATUS_PERMISSION_DENIED]
    ELSE [k |-> DestroyAll(k, {cap \in k.capabilities :
                                 /\ cap.owner_pid = pid
                                 /\ cap.cap_type = cap_type
                                 /\ (resource_id = 0
                                       \/ cap.resource_id = resource_id)}),
          ret |-> STATUS_SUCCESS]

\* =================================================================
\* ipc.c
\* =================================================================

IPC_MESSAGE_HEADER == 32

\* message_queues[pid] == NULL
NoQueue == [frame |-> NULL, msgs |-> <<>>, count |-> 0, max_count |-> 0]

NoMessage ==
    [msg_id |-> 0, sender_pid |-> 0, receiver_pid |-> 0, msg_type |-> 0,
     flags |-> 0, timestamp |-> 0, data_size |-> 0, data |-> 0,
     frame |-> NULL]

\* A NULL ipc_abi_message_t pointer.
NullUserMsg ==
    [ptr |-> NULL, sender_pid |-> 0, msg_type |-> 0, flags |-> 0,
     data_size |-> 0, data |-> 0]

\* Pages of a kernel message with this payload size.
MsgPages(data_size) ==
    (IPC_MESSAGE_HEADER + data_size + PAGE_SIZE - 1) \div PAGE_SIZE

\* ipc_remove_from_queue taking the newest message instead of the oldest.
ipc_remove_from_queue_newest(k, pid) ==
    LET q == k.message_queues[pid] IN
    IF q.frame = NULL \/ q.msgs = <<>> THEN [k |-> k, ret |-> NoMessage]
    ELSE [k |-> [k EXCEPT !.message_queues[pid].msgs =
                              SubSeq(q.msgs, 1, Len(q.msgs) - 1),
                          !.message_queues[pid].count = q.count - 1],
          ret |-> q.msgs[Len(q.msgs)]]

ipc_remove_from_queue(k, pid) ==
    LET q == k.message_queues[pid] IN
    IF q.frame = NULL \/ q.msgs = <<>> THEN [k |-> k, ret |-> NoMessage]
    ELSE [k |-> [k EXCEPT !.message_queues[pid].msgs = Tail(q.msgs),
                          !.message_queues[pid].count = q.count - 1],
          ret |-> Head(q.msgs)]

\* ipc_add_to_queue without the queue-limit check.
ipc_add_to_queue_unbounded(k, pid, msg) ==
    LET a == IF k.message_queues[pid].frame = NULL
             THEN memory_alloc_pages(k, 1)
             ELSE [k |-> k, ret |-> k.message_queues[pid].frame]
    IN
    IF a.ret = NULL THEN a.k
    ELSE
    LET k1 == IF k.message_queues[pid].frame = NULL
              THEN [a.k EXCEPT !.message_queues[pid] =
                        [frame |-> a.ret, msgs |-> <<>>, count |-> 0,
                         max_count |-> QUEUE_MAX_COUNT]]
              ELSE a.k
    IN [k1 EXCEPT !.message_queues[pid].msgs = Append(@, msg),
                  !.message_queues[pid].count = @ + 1]

ipc_add_to_queue(k, pid, msg) ==
    LET a == IF k.message_queues[pid].frame = NULL
             THEN memory_alloc_pages(k, 1)
             ELSE [k |-> k, ret |-> k.message_queues[pid].frame]
    IN
    IF a.ret = NULL THEN a.k
    ELSE
    LET k1 == IF k.message_queues[pid].frame = NULL
              THEN [a.k EXCEPT !.message_queues[pid] =
                        [frame |-> a.ret, msgs |-> <<>>, count |-> 0,
                         max_count |-> QUEUE_MAX_COUNT]]
              ELSE a.k
        q1 == k1.message_queues[pid]
        k2 == IF q1.count >= q1.max_count
              THEN ipc_remove_from_queue(k1, pid).k
              ELSE k1
    IN [k2 EXCEPT !.message_queues[pid].msgs = Append(@, msg),
                  !.message_queues[pid].count = @ + 1]

\* Index of the first message of the list from sender_pid (any message when
\* sender_pid is 0), 0 when there is none.
RECURSIVE FirstMatch(_, _, _)
FirstMatch(msgs, i, sender_pid) ==
    IF i > Len(msgs) THEN 0
    ELSE IF sender_pid = 0 \/ msgs[i].sender_pid = sender_pid THEN i
    ELSE FirstMatch(msgs, i + 1, sender_pid)

RemoveAt(s, i) == SubSeq(s, 1, i - 1) \o SubSeq(s, i + 1, Len(s))

\* ipc_find_in_queue taking the last matching message instead of the first.
ipc_find_in_queue_last(k, pid, sender_pid) ==
    LET q == k.message_queues[pid] IN
    IF q.frame = NULL THEN [k |-> k, ret |-> NoMessage]
    ELSE
    LET match == {j \in 1..Len(q.msgs) :
                     sender_pid = 0 \/ q.msgs[j].sender_pid = sender_pid}
    IN
    IF match = {} THEN [k |-> k, ret |-> NoMessage]
    ELSE
    LET i == CHOOSE j \in match : \A j2 \in match : j2 <= j IN
    [k |-> [k EXCEPT !.message_queues[pid].msgs = RemoveAt(q.msgs, i),
                     !.message_queues[pid].count = q.count - 1],
     ret |-> q.msgs[i]]

ipc_find_in_queue(k, pid, sender_pid) ==
    LET q == k.message_queues[pid] IN
    IF q.frame = NULL THEN [k |-> k, ret |-> NoMessage]
    ELSE
    LET i == FirstMatch(q.msgs, 1, sender_pid) IN
    IF i = 0 THEN [k |-> k, ret |-> NoMessage]
    ELSE [k |-> [k EXCEPT !.message_queues[pid].msgs = RemoveAt(q.msgs, i),
                          !.message_queues[pid].count = q.count - 1],
          ret |-> q.msgs[i]]

ipc_wakeup_receiver(k, pid) ==
    LET process == scheduler_find_process(k, pid) IN
    IF process # NULL /\ k.process_table[process].state = PROCESS_BLOCKED
    THEN [scheduler_unblock_process(k, process)
             EXCEPT !.process_table[process].waiting_for = 0]
    ELSE k

\* ipc_send checking the payload size only after the kernel copy of the
\* message has been allocated and numbered.
ipc_send_late_check(k, receiver_pid, user_msg) ==
    IF user_msg.ptr = NULL THEN [k |-> k, ret |-> STATUS_INVALID_PARAM]
    ELSE IF scheduler_find_process(k, receiver_pid) = NULL
    THEN [k |-> k, ret |-> STATUS_NOT_FOUND]
    ELSE
    LET a == memory_alloc_pages(k, 1) IN
    IF a.ret = NULL THEN [k |-> a.k, ret |-> STATUS_OUT_OF_MEMORY]
    ELSE
    LET kernel_msg ==
            [msg_id |-> k.next_msg_id,
             sender_pid |-> k.process_table[scheduler_get_current(k)].pid,
             receiver_pid |-> receiver_pid,
             msg_type |-> user_msg.msg_type,
             flags |-> user_msg.flags,
             timestamp |-> 0,
             data_size |-> user_msg.data_size,
             data |-> IF user_msg.data_size > 0 THEN user_msg.data ELSE 0,
             frame |-> a.ret]
        k1 == [a.k EXCEPT !.next_msg_id = @ + 1]
        k2 == ipc_add_to_queue(k1, receiver_pid, kernel_msg)
    IN
    IF user_msg.data_size > MAX_DATA_SIZE
    THEN [k |-> k1, ret |-> STATUS_INVALID_PARAM]
    ELSE [k |-> ipc_wakeup_receiver(k2, receiver_pid), ret |-> STATUS_SUCCESS]

\* ipc_send taking the sender from the sender_pid field of the user message.
ipc_send_trusting(k, receiver_pid, user_msg) ==
    IF user_msg.ptr = NULL THEN [k |-> k, ret |-> STATUS_INVALID_PARAM]
    ELSE IF scheduler_find_process(k, receiver_pid) = NULL
    THEN [k |-> k, ret |-> STATUS_NOT_FOUND]
    ELSE IF user_msg.data_size > MAX_DATA_SIZE
    THEN [k |-> k, ret |-> STATUS_INVALID_PARAM]
    ELSE
    LET a == memory_alloc_pages(k, MsgPages(user_msg.data_size)) IN
    IF a.ret = NULL THEN [k |-> a.k, ret |-> STATUS_OUT_OF_MEMORY]
    ELSE
    LET kernel_msg ==
            [msg_id |-> k.next_msg_id,
             sender_pid |-> user_msg.sender_pid,
             receiver_pid |-> receiver_pid,
             msg_type |-> user_msg.msg_type,
             flags |-> user_msg.flags,
             timestamp |-> 0,
             data_size |-> user_msg.data_size,
             data |-> IF user_msg.data_size > 0 THEN user_msg.data ELSE 0,
             frame |-> a.ret]
        k1 == [a.k EXCEPT !.next_msg_id = @ + 1]
        k2 == ipc_add_to_queue(k1, receiver_pid, kernel_msg)
    IN [k |-> ipc_wakeup_receiver(k2, receiver_pid), ret |-> STATUS_SUCCESS]

\* The caller has a current process (scheduler_get_current() is
\* dereferenced without a check).
ipc_send(k, receiver_pid, user_msg) ==
    IF user_msg.ptr = NULL THEN [k |-> k, ret |-> STATUS_INVALID_PARAM]
    ELSE IF scheduler_find_process(k, receiver_pid) = NULL
    THEN [k |-> k, ret |-> STATUS_NOT_FOUND]
    ELSE IF user_msg.data_size > MAX_DATA_SIZE
    THEN [k |-> k, ret |-> STATUS_INVALID_PARAM]
    ELSE
    LET a == memory_alloc_pages(k, MsgPages(user_msg.data_size)) IN
    IF a.ret = NULL THEN [k |-> a.k, ret |-> STATUS_OUT_OF_MEMORY]
    ELSE
    LET kernel_msg ==
            [msg_id |-> k.next_msg_id,
             sender_pid |-> k.process_table[scheduler_get_current(k)].pid,
             receiver_pid |-> receiver_pid,
             msg_type |-> user_msg.msg_type,
             flags |-> user_msg.flags,
             timestamp |-> 0,
             data_size |-> user_msg.data_size,
             data |-> IF user_msg.data_size > 0 THEN user_msg.data ELSE 0,
             frame |-> a.ret]
        k1 == [a.k EXCEPT !.next_msg_id = @ + 1]
        k2 == ipc_add_to_queue(k1, receiver_pid, kernel_msg)
    IN [k |-> ipc_wakeup_receiver(k2, receiver_pid), ret |-> STATUS_SUCCESS]

\* ipc_receive that takes the head of the mailbox whoever sent it.
ipc_receive_any_sender(k, sender_pid, block) ==
    LET receiver == scheduler_get_current(k) IN
    IF receiver = NULL
    THEN [k |-> k, ret |-> STATUS_PERMISSION_DENIED, msg |-> NoMessage]
    ELSE
    LET f == ipc_find_in_queue(k, k.process_table[receiver].pid, 0)
    IN
    IF f.ret.frame = NULL
    THEN IF block
         THEN [k |-> scheduler_block_current(f.k), ret |-> STATUS_SUCCESS,
               msg |-> NoMessage]
         ELSE [k |-> f.k, ret |-> STATUS_NOT_FOUND, msg |-> NoMessage]
    ELSE [k |-> memory_free_pages(f.k, f.ret.frame, 1),
          ret |-> STATUS_SUCCESS,
          msg |-> [f.ret EXCEPT
                      !.data = IF f.ret.data_size > 0
                                  /\ f.ret.data_size <= MAX_DATA_SIZE
                               THEN f.ret.data ELSE 0]]

\* ret is the status, msg what was copied to the caller's buffer (NoMessage
\* when nothing was).
ipc_receive(k, sender_pid, block) ==
    LET receiver == scheduler_get_current(k) IN
    IF receiver = NULL
    THEN [k |-> k, ret |-> STATUS_PERMISSION_DENIED, msg |-> NoMessage]
    ELSE
    LET f == ipc_find_in_queue(k, k.process_table[receiver].pid, sender_pid)
    IN
    IF f.ret.frame = NULL
    THEN IF block
         THEN [k |-> scheduler_block_current(f.k), ret |-> STATUS_SUCCESS,
               msg |-> NoMessage]
         ELSE [k |-> f.k, ret |-> STATUS_NOT_FOUND, msg |-> NoMessage]
    ELSE [k |-> memory_free_pages(f.k, f.ret.frame, 1),
          ret |-> STATUS_SUCCESS,
          msg |-> [f.ret EXCEPT
                      !.data = IF f.ret.data_size > 0
                                  /\ f.ret.data_size <= MAX_DATA_SIZE
                               THEN f.ret.data ELSE 0]]

RECURSIVE BroadcastFrom(_, _, _, _)
BroadcastFrom(k, i, user_msg, sent_count) ==
    IF i >= MAX_PROCESSES THEN [k |-> k, sent_count |-> sent_count]
    ELSE LET s == ipc_send(k, i, user_msg) IN
         BroadcastFrom(s.k, i + 1, user_msg,
                       IF s.ret = STATUS_SUCCESS THEN sent_count + 1
                       ELSE sent_count)

ipc_broadcast(k, user_msg) ==
    IF user_msg.ptr = NULL THEN [k |-> k, ret |-> STATUS_INVALID_PARAM]
    ELSE LET b == BroadcastFrom(k, 1, user_msg, 0) IN
         [k |-> b.k,
          ret |-> IF b.sent_count > 0 THEN STATUS_SUCCESS ELSE STATUS_ERROR]

RECURSIVE FreeMessages(_, _)
FreeMessages(k, msgs) ==
    IF msgs = <<>> THEN k
    ELSE FreeMessages(memory_free_pages(k, Head(msgs).frame, 1), Tail(msgs))

\* ipc_clear_queue freeing the messages without resetting the list.
ipc_clear_queue_keep(k, pid) ==
    IF pid >= MAX_PROCESSES THEN k
    ELSE IF k.message_queues[pid].frame = NULL THEN k
    ELSE FreeMessages(k, k.message_queues[pid].msgs)

ipc_clear_queue(k, pid) ==
    IF pid >= MAX_PROCESSES THEN k
    ELSE IF k.message_queues[pid].frame = NULL THEN k
    ELSE [FreeMessages(k, k.message_queues[pid].msgs)
             EXCEPT !.message_queues[pid].msgs = <<>>,
                    !.message_queues[pid].count = 0]


\* =================================================================
\* process.c
\* =================================================================

\* The first slot from i on that is in use and holds pid, NULL when none.
RECURSIVE FindSlotFrom(_, _, _)
FindSlotFrom(k, pid, i) ==
    IF i > MAX_PROCESSES THEN NULL
    ELSE IF k.process_used[i] /\ k.process_table[i].pid = pid THEN i
    ELSE FindSlotFrom(k, pid, i + 1)

process_find(k, pid) == FindSlotFrom(k, pid, 1)

\* The first free slot from i on, NULL when none.
RECURSIVE FreeSlotFrom(_, _)
FreeSlotFrom(k, i) ==
    IF i > MAX_PROCESSES THEN NULL
    ELSE IF ~k.process_used[i] THEN i
    ELSE FreeSlotFrom(k, i + 1)

RECURSIVE AllocPidFrom(_, _)
AllocPidFrom(k, i) ==
    IF i >= MAX_PROCESSES THEN [k |-> k, ret |-> 0]
    ELSE
    LET pid == (k.alloc_next_pid + i) % MAX_PROCESSES IN
    IF pid = 0 THEN AllocPidFrom(k, i + 1)
    ELSE IF \E j \in Slots :
               k.process_used[j] /\ k.process_table[j].pid = pid
    THEN AllocPidFrom(k, i + 1)
    ELSE [k |-> [k EXCEPT !.alloc_next_pid = pid + 1], ret |-> pid]

\* process_allocate_pid without the scan of the process table.
process_allocate_pid_noscan(k) ==
    LET pid == IF k.alloc_next_pid % MAX_PROCESSES = 0
               THEN (k.alloc_next_pid + 1) % MAX_PROCESSES
               ELSE k.alloc_next_pid % MAX_PROCESSES
    IN [k |-> [k EXCEPT !.alloc_next_pid = pid + 1], ret |-> pid]

process_allocate_pid(k) == AllocPidFrom(k, 0)

process_cleanup(k, process) ==
    IF process = NULL THEN k
    ELSE
    LET pcb == k.process_table[process]
        k1 == IF pcb.page_directory # NULL
              THEN memory_destroy_page_directory(k, pcb.page_directory)
              ELSE k
        k2 == IF pcb.kernel_stack # NULL
              THEN memory_free_pages(k1, pcb.kernel_stack, KERNEL_STACK_PAGES)
              ELSE k1
        k3 == IF pcb.user_stack # NULL
              THEN memory_free_pages(k2, pcb.user_stack, USER_STACK_PAGES)
              ELSE k2
        k4 == capability_revoke(k3, pcb.pid, 0, 0).k
    IN ipc_clear_queue(k4, pcb.pid)

\* ret is the new PCB's slot, NULL on failure.  process_setup_stack builds
\* the initial frame at the top of the new kernel stack and saves the stack
\* pointer, which lies in the last page of that stack.
process_create(k, parent_pid) ==
    LET slot == FreeSlotFrom(k, 1) IN
    IF slot = NULL THEN [k |-> k, ret |-> NULL]
    ELSE
    LET p == process_allocate_pid(k) IN
    IF p.ret = 0 THEN [k |-> p.k, ret |-> NULL]
    ELSE
    LET pd == memory_create_page_directory(p.k)
        ks == memory_alloc_pages(pd.k, KERNEL_STACK_PAGES)
        us == memory_alloc_pages(ks.k, USER_STACK_PAGES)
        k1 == [us.k EXCEPT !.process_table[slot] =
                  [ZeroPCB EXCEPT !.pid = p.ret,
                                  !.parent_pid = parent_pid,
                                  !.state = PROCESS_CREATED,
                                  !.priority = 5,
                                  !.page_directory = pd.ret,
                                  !.kernel_stack = ks.ret,
                                  !.user_stack = us.ret]]
    IN
    IF pd.ret = NULL \/ ks.ret = NULL \/ us.ret = NULL
    THEN [k |-> [process_cleanup(k1, slot)
                    EXCEPT !.process_used[slot] = FALSE],
          ret |-> NULL]
    ELSE
    LET k2 == [k1 EXCEPT !.process_table[slot].saved_esp =
                             ks.ret + KERNEL_STACK_PAGES - 1,
                         !.process_used[slot] = TRUE]
        g1 == capability_grant(k2, p.ret, CAP_PROCESS,
                               PERM_CREATE + PERM_DELETE, 0)
        g2 == capability_grant(g1.k, p.ret, CAP_MEMORY,
                               PERM_ALLOC + PERM_FREE, 0)
        g3 == capability_grant(g2.k, p.ret, CAP_IPC,
                               PERM_READ + PERM_WRITE, 0)
    IN [k |-> g3.k, ret |-> slot]

\* The loop of process_exit over the process table: the children of pid get
\* parent 0.
OrphanChildren(k, pid) ==
    [k EXCEPT !.process_table =
        [i \in Slots |->
            IF k.process_used[i] /\ k.process_table[i].parent_pid = pid
            THEN [k.process_table[i] EXCEPT !.parent_pid = 0]
            ELSE k.process_table[i]]]

\* process_exit that leaves the task with the scheduler.
process_exit_keeps_scheduled(k, process, exit_code, junk_flags) ==
    IF process = NULL THEN k
    ELSE
    LET k1 == [k EXCEPT !.process_table[process].state = PROCESS_TERMINATED,
                        !.process_table[process].exit_code = exit_code]
        pcb == k1.process_table[process]
        parent == scheduler_find_process(k1, pcb.parent_pid)
        k2 == IF parent = NULL THEN k1
              ELSE
              LET m == memory_alloc_pages(k1, MsgPages(4)) IN
              IF m.ret = NULL THEN m.k
              ELSE ipc_send(m.k, k1.process_table[parent].pid,
                            [ptr |-> 1, sender_pid |-> pcb.pid,
                             msg_type |-> MSG_SIGNAL, flags |-> junk_flags,
                             data_size |-> 4, data |-> pcb.pid]).k
        k3 == OrphanChildren(k2, pcb.pid)
        k4 == k3
        k5 == process_cleanup(k4, process)
    IN [k5 EXCEPT !.process_used[process] = FALSE]

\* The exit notification is built in a freshly allocated frame whose flags
\* field is never written: junk_flags is the value found there.
process_exit(k, process, exit_code, junk_flags) ==
    IF process = NULL THEN k
    ELSE
    LET k1 == [k EXCEPT !.process_table[process].state = PROCESS_TERMINATED,
                        !.process_table[process].exit_code = exit_code]
        pcb == k1.process_table[process]
        parent == scheduler_find_process(k1, pcb.parent_pid)
        k2 == IF parent = NULL THEN k1
              ELSE
              LET m == memory_alloc_pages(k1, MsgPages(4)) IN
              IF m.ret = NULL THEN m.k
              ELSE ipc_send(m.k, k1.process_table[parent].pid,
                            [ptr |-> 1, sender_pid |-> pcb.pid,
                             msg_type |-> MSG_SIGNAL, flags |-> junk_flags,
                             data_size |-> 4, data |-> pcb.pid]).k
        k3 == OrphanChildren(k2, pcb.pid)
        k4 == scheduler_remove_process(k3, process)
        k5 == process_cleanup(k4, process)
    IN [k5 EXCEPT !.process_used[process] = FALSE]

\* process_kill without the permission check.
process_kill_unchecked(k, pid, junk_flags) ==
    LET process == process_find(k, pid)
        current == scheduler_get_current(k)
    IN
    IF process = NULL THEN [k |-> k, ret |-> STATUS_NOT_FOUND]
    ELSE IF current = NULL THEN [k |-> k, ret |-> STATUS_PERMISSION_DENIED]
    ELSE [k |-> process_exit(k, process, 0, junk_flags),
          ret |-> STATUS_SUCCESS]

process_kill(k, pid, junk_flags) ==
    LET process == process_find(k, pid)
        current == scheduler_get_current(k)
    IN
    IF process = NULL THEN [k |-> k, ret |-> STATUS_NOT_FOUND]
    ELSE IF current = NULL THEN [k |-> k, ret |-> STATUS_PERMISSION_DENIED]
    ELSE IF k.process_table[current].pid # k.process_table[process].pid
            /\ capability_check(k, k.process_table[current].pid, CAP_SYSTEM,
                                PERM_DELETE) # STATUS_SUCCESS
    THEN [k |-> k, ret |-> STATUS_PERMISSION_DENIED]
    ELSE [k |-> process_exit(k, process, 0, junk_flags),
          ret |-> STATUS_SUCCESS]

\* =================================================================
\* syscall.c
\* =================================================================

sys_process_create(k) ==
    LET parent == scheduler_get_current(k) IN
    IF parent = NULL THEN [k |-> k, ret |-> STATUS_PERMISSION_DENIED]
    ELSE
    LET c == process_create(k, k.process_table[parent].pid) IN
    IF c.ret = NULL THEN [k |-> c.k, ret |-> STATUS_OUT_OF_MEMORY]
    ELSE [k |-> scheduler_add_process(c.k, c.ret),
          ret |-> c.k.process_table[c.ret].pid]

sys_process_exit(k, exit_code, junk_flags) ==
    LET current == scheduler_get_current(k) IN
    IF current = NULL THEN [k |-> k, ret |-> STATUS_PERMISSION_DENIED]
    ELSE [k |-> process_exit(k, current, exit_code, junk_flags),
          ret |-> STATUS_SUCCESS]

sys_process_yield(k) == [k |-> scheduler_yield(k), ret |-> STATUS_SUCCESS]

\* The loop of sys_memory_alloc that identity-maps pages i.. of the block.
RECURSIVE MapBlockFrom(_, _, _, _, _)
MapBlockFrom(k, page_dir, memory, pages, i) ==
    IF i >= pages THEN k
    ELSE MapBlockFrom(
             memory_map_page(k, page_dir, memory + i, memory + i, KERNEL_RW),
             page_dir, memory, pages, i + 1)

\* ret is the status or, on success, the address of the block (a frame
\* number here).
sys_memory_alloc(k, size) ==
    IF size = 0 THEN [k |-> k, ret |-> STATUS_INVALID_PARAM]
    ELSE
    LET pages == (size + PAGE_SIZE - 1) \div PAGE_SIZE
        a == memory_alloc_pages(k, pages)
        current == scheduler_get_current(a.k)
    IN
    IF a.ret = NULL THEN [k |-> a.k, ret |-> STATUS_OUT_OF_MEMORY]
    ELSE IF current # NULL /\ a.k.process_table[current].page_directory # NULL
    THEN [k |-> MapBlockFrom(a.k, a.k.process_table[current].page_directory,
                             a.ret, pages, 0),
          ret |-> a.ret]
    ELSE [k |-> a.k, ret |-> a.ret]

\* memory is the pointer the task passed, in bytes; it lies within tracked
\* RAM (below PAGE_COUNT * PAGE_SIZE).
sys_memory_free(k, memory) ==
    IF memory = NULL THEN [k |-> k, ret |-> STATUS_INVALID_PARAM]
    ELSE [k |-> memory_free_pages(k, memory \div PAGE_SIZE, 1),
          ret |-> STATUS_SUCCESS]

\* virt_addr is a virtual page number, phys_addr a frame number.
sys_memory_map(k, virt_addr, phys_addr, flags) ==
    LET current == scheduler_get_current(k) IN
    IF current = NULL THEN [k |-> k, ret |-> STATUS_PERMISSION_DENIED]
    ELSE [k |-> memory_map_page(k, k.process_table[current].page_directory,
                                virt_addr, phys_addr, flags),
          ret |-> STATUS_SUCCESS]

\* The capability is created for the caller whoever it is; kernel_print of the
\* name changes no kernel state.
sys_driver_register(k, name, caps) ==
    LET current == scheduler_get_current(k) IN
    IF current = NULL THEN [k |-> k, ret |-> STATUS_PERMISSION_DENIED]
    ELSE
    LET c == capability_create(k, k.process_table[current].pid, CAP_DRIVER,
                               caps)
    IN IF ~c.ok THEN [k |-> c.k, ret |-> STATUS_OUT_OF_MEMORY]
       ELSE [k |-> c.k, ret |-> STATUS_SUCCESS]

\* The numbers whose syscall_table entry syscall_init fills in.
syscall_table ==
    {SYS_PROCESS_CREATE, SYS_PROCESS_EXIT, SYS_PROCESS_YIELD,
     SYS_PROCESS_KILL, SYS_MEMORY_ALLOC, SYS_MEMORY_FREE, SYS_MEMORY_MAP,
     SYS_IPC_SEND, SYS_IPC_RECEIVE, SYS_IPC_REGISTER, SYS_DRIVER_REGISTER,
     SYS_DRIVER_REQUEST, SYS_SYSTEM_SHUTDOWN}

\* syscall_table[eax](ebx, ecx, edx) for a registered eax.  A pointer
\* argument is what it points to (the user message of ipc_send); the handler
\* table of ipc_register_handler is not part of this model, and
\* sys_system_shutdown, which a task with the system capability never
\* returns from, leaves the globals as they are.
CallHandler(k, eax, ebx, ecx, edx, junk_flags) ==
    CASE eax = SYS_PROCESS_CREATE -> sys_process_create(k)
      [] eax = SYS_PROCESS_EXIT -> sys_process_exit(k, ebx, junk_flags)
      [] eax = SYS_PROCESS_YIELD -> sys_process_yield(k)
      [] eax = SYS_PROCESS_KILL -> process_kill(k, ebx, junk_flags)
      [] eax = SYS_MEMORY_ALLOC -> sys_memory_alloc(k, ebx)
      [] eax = SYS_MEMORY_FREE -> sys_memory_free(k, ebx)
      [] eax = SYS_MEMORY_MAP -> sys_memory_map(k, ebx, ecx, edx)
      [] eax = SYS_IPC_SEND ->
            LET s == ipc_send(k, ebx, ecx) IN [k |-> s.k, ret |-> s.ret]
      [] eax = SYS_IPC_RECEIVE ->
            LET r == ipc_receive(k, ebx, edx # 0)
            IN [k |-> r.k, ret |-> r.ret]
      [] eax = SYS_IPC_REGISTER ->
            [k |-> k,
             ret |-> IF ebx >= 32 \/ ecx = NULL THEN STATUS_INVALID_PARAM
                     ELSE STATUS_SUCCESS]
      [] eax = SYS_DRIVER_REGISTER -> sys_driver_register(k, ebx, ecx)
      [] eax = SYS_DRIVER_REQUEST ->
            LET s == ipc_send(k, ebx, ecx) IN [k |-> s.k, ret |-> s.ret]
      [] eax = SYS_SYSTEM_SHUTDOWN ->
            [k |-> k,
             ret |-> IF scheduler_get_current(k) = NULL
                     THEN STATUS_PERMISSION_DENIED
                     ELSE capability_check(k,
                              k.process_table[scheduler_get_current(k)].pid,
                              CAP_SYSTEM, 0)]

\* syscall_handler looking for the current process before it looks at the
\* number.
syscall_handler_current_first(k, eax, ebx, ecx, edx, junk_flags) ==
    LET current == scheduler_get_current(k) IN
    IF current = NULL THEN [k |-> k, eax |-> STATUS_PERMISSION_DENIED]
    ELSE IF eax >= 256 \/ eax \notin syscall_table
    THEN [k |-> k, eax |-> STATUS_INVALID_PARAM]
    ELSE IF capability_check(k, k.process_table[current].pid, eax, 0)
            # STATUS_SUCCESS
    THEN [k |-> k, eax |-> STATUS_PERMISSION_DENIED]
    ELSE LET h == CallHandler(k, eax, ebx, ecx, edx, junk_flags)
         IN [k |-> h.k, eax |-> h.ret]

\* syscall_handler checking the range of the number but not its table entry.
syscall_handler_range_only(k, eax, ebx, ecx, edx, junk_flags) ==
    IF eax >= 256
    THEN [k |-> k, eax |-> STATUS_INVALID_PARAM]
    ELSE
    LET current == scheduler_get_current(k) IN
    IF current = NULL THEN [k |-> k, eax |-> STATUS_PERMISSION_DENIED]
    ELSE IF capability_check(k, k.process_table[current].pid, eax, 0)
            # STATUS_SUCCESS
    THEN [k |-> k, eax |-> STATUS_PERMISSION_DENIED]
    ELSE LET h == CallHandler(k, eax, ebx, ecx, edx, junk_flags)
         IN [k |-> h.k, eax |-> h.ret]

\* eax is the value the handler leaves in its eax ("Return result in EAX").
syscall_handler(k, eax, ebx, ecx, edx, junk_flags) ==
    IF eax >= 256 \/ eax \notin syscall_table
    THEN [k |-> k, eax |-> STATUS_INVALID_PARAM]
    ELSE
    LET current == scheduler_get_current(k) IN
    IF current = NULL THEN [k |-> k, eax |-> STATUS_PERMISSION_DENIED]
    ELSE IF capability_check(k, k.process_table[current].pid, eax, 0)
            # STATUS_SUCCESS
    THEN [k |-> k, eax |-> STATUS_PERMISSION_DENIED]
    ELSE LET h == CallHandler(k, eax, ebx, ecx, edx, junk_flags)
         IN [k |-> h.k, eax |-> h.ret]

\* =================================================================
\* interrupt.c
\* =================================================================

\* A CPU exception (int_no < 32) taken with code segment selector cs:
\* panic tells whether the kernel stopped in kernel_panic.
interrupt_handler_common(k, int_no, cs, junk_flags) ==
    LET current == scheduler_get_current(k) IN
    IF BitAnd(cs, 3) = 3 /\ current # NULL
    THEN [k |-> process_exit(k, current, int_no, junk_flags),
          panic |-> FALSE]
    ELSE [k |-> k, panic |-> TRUE]

\* =================================================================
\* main.c
\* =================================================================

\* Virtual page of 0x400000, where start_service maps a service's image.
SERVICE_BASE == TABLE_ENTRIES

\* Virtual page of 0xE00000, the kernel's temporary mapping.
TEMP_VIRT == 3 * TABLE_ENTRIES + TABLE_ENTRIES \div 2

\* The loop of start_service that loads the image of proc, from page i on.
RECURSIVE LoadServiceFrom(_, _, _)
LoadServiceFrom(k, proc, i) ==
    IF i >= pages_needed THEN k
    ELSE
    LET a == memory_alloc_physical(k) IN
    IF a.ret = NULL THEN a.k
    ELSE
    LET k1 == memory_map_page(a.k, a.k.process_table[proc].page_directory,
                              SERVICE_BASE + i, a.ret, USER_RW)
        k2 == memory_map_page(k1, k1.kernel_page_dir, TEMP_VIRT, a.ret,
                              KERNEL_RW)
        k3 == memory_unmap_page(k2, k2.kernel_page_dir, TEMP_VIRT)
    IN LoadServiceFrom(k3, proc, i + 1)

\* ret is the PCB of the new service, NULL when process_create failed.
start_service(k) ==
    LET c == process_create(k, 0) IN
    IF c.ret = NULL THEN [k |-> c.k, ret |-> NULL]
    ELSE [k |-> scheduler_add_process(LoadServiceFrom(c.k, c.ret, 0), c.ret),
          ret |-> c.ret]


\* =================================================================
\* Initial state: kernel_main after the *_init calls
\* =================================================================

\* The globals as process_init, scheduler_init, ipc_init and capability_init
\* leave them, with the bitmap cleared.  tss_entry is a static object, zero
\* from the start, and hal_gdt_init writes esp0 = 0 into it.
ClearedKernel ==
    [process_used |-> [i \in Slots |-> FALSE],
     process_table |-> [i \in Slots |-> ZeroPCB],
     alloc_next_pid |-> 1,
     current_process |-> NULL,
     ready_queue_head |-> NULL,
     ready_queue_tail |-> NULL,
     next_pid |-> 1,
     scheduler_ticks |-> 0,
     message_queues |-> [p \in Pids |-> NoQueue],
     next_msg_id |-> 1,
     memory_bitmap |-> {},
     kernel_page_dir |-> NULL,
     page_tables |-> {},
     capabilities |-> {},
     next_cap_id |-> 1,
     cr3 |-> NULL,
     tss_esp0 |-> 0]

\* The identity map of the kernel frames from frame i on.
RECURSIVE MapKernelFrom(_, _)
MapKernelFrom(k, i) ==
    IF i >= KERNEL_PAGES THEN k
    ELSE MapKernelFrom(
             memory_map_page(k, k.kernel_page_dir, i, i, KERNEL_RW), i + 1)

\* memory_init: the kernel frames are marked used, then the kernel page
\* directory is created, the kernel frames are identity-mapped in it and
\* paging is enabled on it.
memory_init(k) ==
    LET k0 == [k EXCEPT !.memory_bitmap = 0..(KERNEL_PAGES - 1)]
        pd == memory_create_page_directory(k0)
        k1 == MapKernelFrom([pd.k EXCEPT !.kernel_page_dir = pd.ret], 0)
    IN [k1 EXCEPT !.cr3 = k1.kernel_page_dir]

Init ==
    /\ LET k == memory_init(ClearedKernel) IN
        /\ process_used = k.process_used
        /\ process_table = k.process_table
        /\ alloc_next_pid = k.alloc_next_pid
        /\ current_process = k.current_process
        /\ ready_queue_head = k.ready_queue_head
        /\ ready_queue_tail = k.ready_queue_tail
        /\ next_pid = k.next_pid
        /\ scheduler_ticks = k.scheduler_ticks
        /\ message_queues = k.message_queues
        /\ next_msg_id = k.next_msg_id
        /\ memory_bitmap = k.memory_bitmap
        /\ kernel_page_dir = k.kernel_page_dir
        /\ page_tables = k.page_tables
        /\ capabilities = k.capabilities
        /\ next_cap_id = k.next_cap_id
        /\ cr3 = k.cr3
        /\ tss_esp0 = k.tss_esp0
    /\ created = 0
    /\ recvLog = [r \in Pids |-> [s \in Pids |-> <<>>]]
    /\ sentBy = <<>>
    /\ panicked = FALSE

\* ------------------------------------------------------------ inputs
\* Messages a task passes to ipc_send: a NULL pointer, two well-formed
\* messages that differ in every field, and one whose data_size is too large.
\* sender_pid is whatever the task wrote into that field.
UserMessages ==
    {NullUserMsg,
     [ptr |-> 1, sender_pid |-> 0, msg_type |-> MSG_DATA, flags |-> 0,
      data_size |-> 4, data |-> 11],
     [ptr |-> 1, sender_pid |-> 3, msg_type |-> MSG_RESPONSE, flags |-> 1,
      data_size |-> 8, data |-> 22],
     [ptr |-> 1, sender_pid |-> 0, msg_type |-> MSG_DATA, flags |-> 0,
      data_size |-> 257, data |-> 33]}

\* The messages of the runs that follow longer message sequences: a NULL
\* pointer, one well-formed message and the oversized one.
IpcMessages == {m \in UserMessages : m.ptr = NULL \/ m.data_size >= 8}

\* Exit codes: 13 is the vector of a general protection fault.
ExitCodes == {13}

\* Exception vectors: divide error, general protection fault, page fault
\* and the last of the 32.
Vectors == {0, 13, 14, 31}

\* Values an unwritten flags field may hold.
JunkFlags == {0, 1}

\* Sizes a task passes to sys_memory_alloc: none, one page, two pages.
AllocSizes == {0, 1, PAGE_SIZE + 1}

\* The first frame free after memory_init: the frame that becomes the page
\* directory of the first task.
FirstTaskFrame == Cardinality(memory_init(ClearedKernel).memory_bitmap)

\* Pointers a task passes to sys_memory_free: NULL, a pointer into frame 0,
\* and the address of the frame above.
UserPointers == {NULL, 1, FirstTaskFrame * PAGE_SIZE}

\* The arguments <<ebx, ecx, edx>> a task passes with syscall number eax.
SyscallArgs(eax) ==
    CASE eax = SYS_PROCESS_EXIT -> {<<c, 0, 0>> : c \in ExitCodes}
      [] eax = SYS_PROCESS_KILL -> {<<pid, 0, 0>> : pid \in Pids \ {0}}
      [] eax = SYS_MEMORY_ALLOC -> {<<size, 0, 0>> : size \in AllocSizes}
      [] eax = SYS_MEMORY_FREE -> {<<m, 0, 0>> : m \in UserPointers}
      [] eax = SYS_MEMORY_MAP ->
            {<<2 * TABLE_ENTRIES, PAGE_COUNT - 1, fl>> :
                fl \in {KERNEL_RW, USER_RW}}
      [] eax \in {SYS_IPC_SEND, SYS_DRIVER_REQUEST} ->
            {<<to, m, 0>> : to \in Pids, m \in UserMessages}
      [] eax = SYS_IPC_RECEIVE ->
            {<<from, 1, b>> : from \in Pids, b \in {0, 1}}
      [] eax = SYS_IPC_REGISTER -> {<<MSG_DATA, 1, 0>>, <<32, 1, 0>>}
      [] eax = SYS_DRIVER_REGISTER -> {<<1, PERM_READ, 0>>}
      [] OTHER -> {<<0, 0, 0>>}

\* The virtual page a task maps or touches: that of 0x800000.
UserPages == {2 * TABLE_ENTRIES}

\* The frame and the flags a task passes to sys_memory_map.
MapFrames == {PAGE_COUNT - 1}
MapFlags == {KERNEL_RW, USER_RW}

\* The page-directory entry and the page-table entry that translate virtual
\* page virt_addr under page_dir, as the MMU walks them.
WalkPDE(k, page_dir, virt_addr) ==
    ReadEntry(k, page_dir, virt_addr \div TABLE_ENTRIES)

WalkPTE(k, page_dir, virt_addr) ==
    ReadEntry(k, EntryFrame(WalkPDE(k, page_dir, virt_addr)),
              virt_addr % TABLE_ENTRIES)

\* The CPU has switched to a task: since then it runs that task in ring 3
\* whenever it is not in the kernel, for context_switch never switches back
\* to the boot context.
TaskLoaded(k) == k.cr3 # k.kernel_page_dir

\* virt_addr has a present translation under page_dir.
Translated(k, page_dir, virt_addr) ==
    /\ EntryPresent(WalkPDE(k, page_dir, virt_addr))
    /\ EntryPresent(WalkPTE(k, page_dir, virt_addr))

\* ... one that ring 3 may use: the user bit is set at both levels.
UserAccessible(k, page_dir, virt_addr) ==
    /\ Translated(k, page_dir, virt_addr)
    /\ EntryUser(WalkPDE(k, page_dir, virt_addr))
    /\ EntryUser(WalkPTE(k, page_dir, virt_addr))

\* =================================================================
\* Actions: the kernel entry points
\* =================================================================

\* start_service (main.c): the kernel creates a task with parent 0 and loads
\* its image ...
\* (max_creates caps the number of process_create calls of a run)
ProcessCreate(max_creates) ==
    /\ created < max_creates
    /\ created' = created + 1
    /\ UNCHANGED recvLog
    /\ LET c == process_create(K, 0) IN
       Becomes(IF c.ret = NULL THEN c.k ELSE LoadServiceFrom(c.k, c.ret, 0))

\* ... and hands it to the scheduler.
SchedulerAddProcess(p) ==
    /\ process_used[p]
    /\ process_table[p].state = PROCESS_CREATED
    /\ Becomes(scheduler_add_process(K, p))
    /\ UNCHANGED <<created, recvLog>>

\* start_service run without an interrupt in between: the new task is
\* queued as soon as it is created.
StartService(max_creates) ==
    /\ created < max_creates
    /\ created' = created + 1
    /\ UNCHANGED recvLog
    /\ Becomes(start_service(K).k)

SysProcessCreate(max_creates) ==
    /\ current_process # NULL
    /\ created < max_creates
    /\ created' = created + 1
    /\ UNCHANGED recvLog
    /\ Becomes(sys_process_create(K).k)

SysProcessYield ==
    /\ Becomes(sys_process_yield(K).k)
    /\ UNCHANGED <<created, recvLog>>

\* Timer IRQ: hal_timer_interrupt_handler calls scheduler_tick.
TimerIrq ==
    /\ scheduler_ticks < MaxTicks
    /\ Becomes(scheduler_tick(K))
    /\ UNCHANGED <<created, recvLog>>

\* ipc_send by the current task; max_id caps the msg_id counter.
IpcSend(receiver_pid, user_msg, max_id) ==
    /\ current_process # NULL
    /\ next_msg_id < max_id
    /\ Becomes(ipc_send(K, receiver_pid, user_msg).k)
    /\ UNCHANGED <<created, recvLog>>

\* ipc_receive by the current task (log: whether the delivery is recorded in
\* the history).
IpcReceive(sender_pid, block, log) ==
    LET r == ipc_receive(K, sender_pid, block) IN
    /\ Becomes(r.k)
    /\ recvLog' = IF log /\ r.msg.msg_id # 0
                  THEN [recvLog EXCEPT
                           ![r.msg.receiver_pid][r.msg.sender_pid] =
                               Append(@, r.msg.msg_id)]
                  ELSE recvLog
    /\ UNCHANGED created

IpcBroadcast(user_msg, max_id) ==
    /\ current_process # NULL
    /\ next_msg_id < max_id
    /\ Becomes(ipc_broadcast(K, user_msg).k)
    /\ UNCHANGED <<created, recvLog>>

\* process_exit(p, code) on a live PCB: sys_process_exit and the ring-3
\* exception path call it on the current process, process_kill on any.
ProcessExit(p, exit_code, junk_flags) ==
    /\ current_process # NULL
    /\ process_used[p]
    /\ Becomes(process_exit(K, p, exit_code, junk_flags))
    /\ UNCHANGED <<created, recvLog>>

ProcessKill(pid, junk_flags) ==
    /\ Becomes(process_kill(K, pid, junk_flags).k)
    /\ UNCHANGED <<created, recvLog>>

SysMemoryAlloc(size, max_frames) ==
    /\ current_process # NULL
    /\ Cardinality(memory_bitmap) < max_frames
    /\ Becomes(sys_memory_alloc(K, size).k)
    /\ UNCHANGED <<created, recvLog>>

SysMemoryFree(memory) ==
    /\ current_process # NULL
    /\ Becomes(sys_memory_free(K, memory).k)
    /\ UNCHANGED <<created, recvLog>>

SysMemoryMap(virt_addr, phys_addr, flags) ==
    /\ current_process # NULL
    /\ Becomes(sys_memory_map(K, virt_addr, phys_addr, flags).k)
    /\ UNCHANGED <<created, recvLog>>

\* The current task, in ring 3 (cs = 0x1B), touches a virtual page it may
\* not use: the CPU raises exception 14.
PageFault(virt_addr, junk_flags) ==
    /\ current_process # NULL
    /\ ~UserAccessible(K, process_table[current_process].page_directory,
                       virt_addr)
    /\ Becomes(interrupt_handler_common(K, 14, 27, junk_flags).k)
    /\ UNCHANGED <<created, recvLog>>

\* A CPU exception (vector int_no below 32) taken with code segment
\* selector cs: 0x1B in ring 3, where the CPU runs the task it last switched
\* to, 0x08 in the kernel.  After kernel_panic nothing runs any more.
CpuException(int_no, cs, junk_flags) ==
    /\ ~panicked
    /\ BitAnd(cs, 3) = 3 => TaskLoaded(K)
    /\ StepsTo(interrupt_handler_common(K, int_no, cs, junk_flags).k,
               interrupt_handler_common(K, int_no, cs, junk_flags).panic)
    /\ UNCHANGED <<created, recvLog>>

\* The entry points of process, scheduler and IPC.
Next ==
    \/ ProcessCreate(MaxCreates)
    \/ \E p \in Slots : SchedulerAddProcess(p)
    \/ SysProcessCreate(MaxCreates)
    \/ SysProcessYield
    \/ TimerIrq
    \/ \E to \in Pids, m \in UserMessages : IpcSend(to, m, MaxMsgId)
    \/ \E from \in Pids, b \in BOOLEAN : IpcReceive(from, b, FALSE)
    \/ \E m \in UserMessages : IpcBroadcast(m, MaxMsgId)
    \/ \E p \in Slots, c \in ExitCodes, j \in JunkFlags : ProcessExit(p, c, j)
    \/ \E pid \in Pids \ {0}, j \in JunkFlags : ProcessKill(pid, j)

Spec == Init /\ [][Next]_vars

\* Message passing among the tasks, with a longer run of messages: no timer
\* and no termination.
NextIpc ==
    \/ StartService(MaxIpcCreates)
    \/ SysProcessCreate(MaxIpcCreates)
    \/ SysProcessYield
    \/ \E to \in Pids, m \in IpcMessages : IpcSend(to, m, MaxIpcMsgId)
    \/ \E from \in Pids, b \in BOOLEAN : IpcReceive(from, b, TRUE)
    \/ \E m \in IpcMessages : IpcBroadcast(m, MaxIpcMsgId)

SpecIpc == Init /\ [][NextIpc]_vars

\* Termination of tasks that exchange messages.
NextExit ==
    \/ StartService(MaxIpcCreates)
    \/ SysProcessCreate(MaxIpcCreates)
    \/ SysProcessYield
    \/ \E to \in Pids, m \in IpcMessages : IpcSend(to, m, MaxMsgId)
    \/ \E from \in Pids, b \in BOOLEAN : IpcReceive(from, b, FALSE)
    \/ \E p \in Slots, c \in ExitCodes, j \in JunkFlags : ProcessExit(p, c, j)

SpecExit == Init /\ [][NextExit]_vars

\* The process life cycle alone: creation, scheduling and termination.
NextProc ==
    \/ ProcessCreate(MaxProcCreates)
    \/ \E p \in Slots : SchedulerAddProcess(p)
    \/ SysProcessCreate(MaxProcCreates)
    \/ SysProcessYield
    \/ TimerIrq
    \/ \E p \in Slots, c \in ExitCodes, j \in JunkFlags : ProcessExit(p, c, j)
    \/ \E pid \in Pids \ {0}, j \in JunkFlags : ProcessKill(pid, j)

SpecProc == Init /\ [][NextProc]_vars

\* The timer IRQ while exactly two tasks are in the system, both handed to
\* the scheduler and neither blocked nor terminated: the two tasks only
\* compute, so the timer is the only entry into the kernel.  The run ends
\* after 10 * TIME_QUANTUM ticks.
BusyTick ==
    /\ scheduler_ticks < 10 * TIME_QUANTUM
    /\ Cardinality({p \in Slots : process_used[p]}) = 2
    /\ \A p \in Slots :
           process_used[p]
           => process_table[p].state \in {PROCESS_READY, PROCESS_RUNNING}
    /\ Becomes(scheduler_tick(K))
    /\ UNCHANGED <<created, recvLog>>

\* Two compute-bound tasks: they are created and dispatched (by the kernel
\* or by one another) before the first tick, then the timer runs.
NextBusy ==
    \/ scheduler_ticks = 0 /\ ProcessCreate(MaxIpcCreates)
    \/ scheduler_ticks = 0 /\ \E p \in Slots : SchedulerAddProcess(p)
    \/ scheduler_ticks = 0 /\ SysProcessCreate(MaxIpcCreates)
    \/ scheduler_ticks = 0 /\ SysProcessYield
    \/ BusyTick

SpecBusy == Init /\ [][NextBusy]_vars

\* CPU exceptions in tasks and in the kernel.
NextTrap ==
    \/ ~panicked /\ StartService(MaxTrapCreates)
    \/ ~panicked /\ SysProcessCreate(MaxTrapCreates)
    \/ ~panicked /\ SysProcessYield
    \/ \E int_no \in Vectors, cs \in {8, 27}, j \in JunkFlags :
           CpuException(int_no, cs, j)

SpecTrap == Init /\ [][NextTrap]_vars

\* Tasks through their whole life: services started by the kernel, tasks
\* that create children, yield, are preempted, exchange a message, exit and
\* are killed, so that the slots of exited tasks are taken again.  process_exit
\* is called on the current task, as sys_process_exit, the exception path
\* and process_kill (which lets a task kill only itself) call it.
NextLife ==
    \/ StartService(MaxLifeCreates)
    \/ SysProcessCreate(MaxLifeCreates)
    \/ SysProcessYield
    \/ TimerIrq
    \/ \E to \in Pids, m \in IpcMessages : IpcSend(to, m, MaxLifeMsgId)
    \/ \E from \in Pids, b \in BOOLEAN : IpcReceive(from, b, FALSE)
    \/ \E p \in Slots, c \in ExitCodes, j \in JunkFlags :
           p = current_process /\ ProcessExit(p, c, j)
    \/ \E pid \in Pids \ {0}, j \in JunkFlags : ProcessKill(pid, j)

SpecLife == Init /\ [][NextLife]_vars

\* The frame allocator under a task that allocates blocks and frees frames
\* in any order: the pointers it frees are a pointer into frame 0 and the
\* addresses of the frames of the first task's page directory and kernel
\* stack, which later allocations hand out again.
FreePointers ==
    {1} \cup {f * PAGE_SIZE :
                f \in FirstTaskFrame..(FirstTaskFrame + KERNEL_STACK_PAGES)}

NextAlloc ==
    \/ created = 0 /\ StartService(MaxMemCreates)
    \/ SysProcessYield
    \/ \E size \in AllocSizes : SysMemoryAlloc(size, MaxMemFrames)
    \/ \E memory \in FreePointers : SysMemoryFree(memory)

SpecAlloc == Init /\ [][NextAlloc]_vars

\* Memory management: tasks that allocate, free and map pages, and fault.
NextMem ==
    \/ StartService(MaxMemCreates)
    \/ SysProcessCreate(MaxMemCreates)
    \/ SysProcessYield
    \/ \E size \in AllocSizes : SysMemoryAlloc(size, MaxMemFrames)
    \/ \E memory \in UserPointers : SysMemoryFree(memory)
    \/ \E v \in UserPages, f \in MapFrames, fl \in MapFlags :
           SysMemoryMap(v, f, fl)
    \/ \E v \in UserPages, j \in JunkFlags : PageFault(v, j)

SpecMem == Init /\ [][NextMem]_vars


\* =================================================================
\* State observations used by the properties
\* =================================================================

\* The PCBs met by walking the ready queue from its head along next, as the
\* loops of scheduler_find_process and scheduler_get_stats walk it.
RECURSIVE QueueFrom(_, _, _)
QueueFrom(k, p, fuel) ==
    IF p = NULL \/ fuel = 0 THEN <<>>
    ELSE <<p>> \o QueueFrom(k, k.process_table[p].next, fuel - 1)

ReadyQueue(k) == QueueFrom(k, k.ready_queue_head, MAX_PROCESSES + 1)

OnReadyQueue(k, p) == \E i \in 1..Len(ReadyQueue(k)) : ReadyQueue(k)[i] = p

\* Live PCBs in a given state.
InState(k, st) ==
    {p \in Slots : k.process_used[p] /\ k.process_table[p].state = st}

\* Number of free physical frames.
FreeFrames(k) == PAGE_COUNT - Cardinality(k.memory_bitmap)

\* Well-formed messages a task may send.
ValidMessages ==
    {m \in UserMessages : m.ptr # NULL /\ m.data_size <= MAX_DATA_SIZE}

\* =================================================================
\* C1
\* =================================================================

\* C1: whenever the scheduler has a current task, exactly one live task is
\* in state Running.
C1_ExactlyOneRunning ==
    current_process # NULL =>
        Cardinality(InState(K, PROCESS_RUNNING)) = 1

\* =================================================================
\* C2
\* =================================================================

\* C2: a live task is on the ready queue exactly when its state is Ready,
\* and the queue holds no task twice.
C2_ReadyIffQueued ==
    /\ \A p \in Slots :
           process_used[p] =>
               (OnReadyQueue(K, p) <=> process_table[p].state = PROCESS_READY)
    /\ \A i, j \in 1..Len(ReadyQueue(K)) :
           ReadyQueue(K)[i] = ReadyQueue(K)[j] => i = j

\* =================================================================
\* C3
\* =================================================================

\* C3: when the current task sends a well-formed message to a live task that
\* is Blocked in a receive (waiting for any sender or for the caller) and
\* memory is available, ipc_send returns success, the message is at the back
\* of the receiver's mailbox and the receiver is Ready on the ready queue.
C3_SendWakesBlockedReceiver ==
    \A to \in Pids \ {0}, m \in ValidMessages :
        LET t == process_find(K, to)
            r == ipc_send(K, to, m)
            q == r.k.message_queues[to].msgs
        IN
        (/\ current_process # NULL
         /\ t # NULL
         /\ process_table[t].state = PROCESS_BLOCKED
         /\ process_table[t].waiting_for
                \in {0, process_table[current_process].pid}
         /\ FreeFrames(K) >= 2)
        => /\ r.ret = STATUS_SUCCESS
           /\ q # <<>>
           /\ q[Len(q)].msg_id = next_msg_id
           /\ q[Len(q)].data = m.data
           /\ r.k.process_table[t].state = PROCESS_READY
           /\ OnReadyQueue(r.k, t)

\* =================================================================
\* C4
\* =================================================================

\* C4: a blocking ipc_receive that finds no matching message leaves the
\* caller Blocked with waiting_for = from_pid, and does not return success
\* without having delivered a message.
C4_BlockingReceiveWaits ==
    \A from \in Pids :
        LET r == ipc_receive(K, from, TRUE) IN
        (/\ current_process # NULL
         /\ FirstMatch(message_queues[process_table[current_process].pid].msgs,
                       1, from) = 0)
        => /\ r.k.process_table[current_process].state = PROCESS_BLOCKED
           /\ r.k.process_table[current_process].waiting_for = from
           /\ (r.ret = STATUS_SUCCESS => r.msg # NoMessage)

\* =================================================================
\* C5
\* =================================================================

StrictlyIncreasing(s) == \A i, j \in 1..Len(s) : i < j => s[i] < s[j]

\* msg_ids of the messages from sender s waiting in r's mailbox, front first.
Pending(r, s) ==
    LET msgs == message_queues[r].msgs
        F[i \in 0..Len(msgs)] ==
            IF i = 0 THEN <<>>
            ELSE IF msgs[i].sender_pid = s
                 THEN Append(F[i - 1], msgs[i].msg_id)
                 ELSE F[i - 1]
    IN F[Len(msgs)]

\* C5: for every receiver r and sender s, the messages r has received from
\* s, followed by those from s still waiting in r's mailbox, are in the
\* order s sent them (msg_ids are handed out in send order), whatever other
\* senders have put in between.
C5_FifoPerSender ==
    \A r, s \in Pids : StrictlyIncreasing(recvLog[r][s] \o Pending(r, s))

\* A receiver has taken two messages of one sender and a message of another.
C5_Witness ==
    \E r, s, s2 \in Pids :
        /\ s # s2
        /\ Len(recvLog[r][s]) >= 2
        /\ recvLog[r][s2] # <<>>

\* =================================================================
\* C6
\* =================================================================

C7_OverflowDropsOldest ==
    /\ \A to \in Pids \ {0}, m \in ValidMessages :
           LET pre == message_queues[to].msgs
               r == ipc_send(K, to, m)
               post == r.k.message_queues[to].msgs
           IN
           (/\ current_process # NULL
            /\ Len(pre) = QUEUE_MAX_COUNT
            /\ r.ret = STATUS_SUCCESS)
           => /\ Len(post) = QUEUE_MAX_COUNT
              /\ SubSeq(post, 1, Len(post) - 1) = Tail(pre)
              /\ post[Len(post)].msg_id = next_msg_id
              /\ post[Len(post)].data = m.data
    /\ \A b \in BOOLEAN :
           LET own == IF current_process = NULL THEN <<>>
                      ELSE message_queues[
                               process_table[current_process].pid].msgs
               r == ipc_receive(K, 0, b)
           IN
           own # <<>> =>
               /\ r.ret = STATUS_SUCCESS
               /\ r.msg.msg_id = Head(own).msg_id
               /\ r.k.message_queues[
                      process_table[current_process].pid].msgs = Tail(own)

\* One sender sent QUEUE_MAX_COUNT + 1 messages (ids 1 ..) to a receiver
\* whose first receive returned the second of them, the rest still waiting.
C7_Witness ==
    \E r, s \in Pids :
        /\ recvLog[r][s] = <<2>>
        /\ Pending(r, s) = [i \in 1..(QUEUE_MAX_COUNT - 1) |-> i + 2]
        /\ Len(message_queues[r].msgs) = QUEUE_MAX_COUNT - 1

\* =================================================================
\* C8
\* =================================================================

\* C8: every live PCB has a non-zero PID not above MAX_PROCESSES, no two
\* live PCBs share a PID, and a lookup by that PID finds that PCB.
C8_LivePidsUnique ==
    \A i \in Slots :
        process_used[i] =>
            /\ process_table[i].pid # 0
            /\ process_table[i].pid <= MAX_PROCESSES
            /\ \A j \in Slots :
                   (process_used[j] /\ j # i)
                   => process_table[j].pid # process_table[i].pid
            /\ process_find(K, process_table[i].pid) = i

\* Two live PCBs, one of them in a slot whose number differs from its PID
\* (PIDs have been handed out again after an exit).
C8_Witness ==
    \E i, j \in Slots :
        /\ i # j
        /\ process_used[i]
        /\ process_used[j]
        /\ process_table[i].pid # i

\* =================================================================
\* C9
\* =================================================================

\* C9: process_exit(p, code) on a live PCB leaves p Terminated with
\* exit_code = code, neither on the ready queue nor current, with an empty
\* mailbox, its slot free and its PID no longer found by process_find.
C9_ExitReleases ==
    \A p \in Slots, code \in ExitCodes \cup {0}, j \in JunkFlags :
        LET k == process_exit(K, p, code, j)
            pid == process_table[p].pid
        IN
        (current_process # NULL /\ process_used[p])
        => /\ k.process_table[p].state = PROCESS_TERMINATED
           /\ k.process_table[p].exit_code = code
           /\ ~OnReadyQueue(k, p)
           /\ k.ready_queue_tail # p
           /\ k.current_process # p
           /\ k.message_queues[pid].msgs = <<>>
           /\ k.message_queues[pid].count = 0
           /\ ~k.process_used[p]
           /\ process_find(k, pid) = NULL

\* A task that had been sent messages has exited with code 13: its slot is
\* free, its PCB Terminated and its mailbox, once created, empty.
C9_Witness ==
    \E p \in Slots :
        /\ ~process_used[p]
        /\ process_table[p].state = PROCESS_TERMINATED
        /\ process_table[p].exit_code = 13
        /\ message_queues[process_table[p].pid].frame # NULL
        /\ message_queues[process_table[p].pid].msgs = <<>>
        /\ current_process # p
        /\ process_find(K, process_table[p].pid) = NULL

\* =================================================================
\* C10
\* =================================================================

\* C10: when a task whose parent is alive (Created, Ready, Running or
\* Blocked) exits and memory is available, the parent's mailbox ends with
\* one new MSG_SIGNAL message whose payload is the PID of the exited task.
C10_ParentNotified ==
    \A p \in Slots, code \in ExitCodes, j \in JunkFlags :
        LET pid == process_table[p].pid
            parent == process_find(K, process_table[p].parent_pid)
            ppid == process_table[p].parent_pid
            k == process_exit(K, p, code, j)
            q == k.message_queues[ppid].msgs
        IN
        (/\ current_process # NULL
         /\ process_used[p]
         /\ ppid # 0
         /\ parent # NULL
         /\ FreeFrames(K) >= 3)
        => /\ q # <<>>
           /\ q[Len(q)].msg_id = next_msg_id
           /\ q[Len(q)].msg_type = MSG_SIGNAL
           /\ q[Len(q)].data = pid
           /\ k.next_msg_id = next_msg_id + 1

\* =================================================================
\* C11
\* =================================================================

\* The number of PCB slots in use.
UsedSlots(k) == Cardinality({i \in Slots : k.process_used[i]})

\* The number of frames whose bit is set in the bitmap.
UsedFrames(k) == Cardinality(k.memory_bitmap)

\* C11: process_create (for the kernel, parent 0, or for the current task)
\* followed by process_exit of the task it created leaves as many PCB slots
\* in use and as many frames allocated as before the process_create call.
C11_CreateExitRestores ==
    \A parent_pid \in Pids, code \in ExitCodes, j \in JunkFlags :
        LET c == process_create(K, parent_pid)
            k == process_exit(c.k, c.ret, code, j)
        IN
        (/\ \/ parent_pid = 0
            \/ /\ current_process # NULL
               /\ parent_pid = process_table[current_process].pid
         /\ c.ret # NULL)
        => /\ UsedSlots(k) = UsedSlots(K)
           /\ UsedFrames(k) = UsedFrames(K)

\* =================================================================
\* C13
\* =================================================================

\* C13: scheduler_yield called while a task is running and the ready queue
\* is empty leaves that task the current process, in state Running (no
\* context switch).
C13_YieldAloneKeepsRunning ==
    LET k == scheduler_yield(K) IN
    (/\ current_process # NULL
     /\ process_table[current_process].state = PROCESS_RUNNING
     /\ ready_queue_head = NULL)
    => /\ k.current_process = current_process
       /\ k.process_table[current_process].state = PROCESS_RUNNING

\* =================================================================
\* C16
\* =================================================================

C14_SenderIsKernelObserved ==
    \A from \in Pids, b \in BOOLEAN :
        LET r == ipc_receive(K, from, b) IN
        r.msg.msg_id # 0
        => /\ r.msg.msg_id <= Len(sentBy)
           /\ r.msg.sender_pid = sentBy[r.msg.msg_id]

\* A message has been delivered whose sender had written another PID than
\* its own into sender_pid.
C14_Witness ==
    \E r, s \in Pids :
        /\ recvLog[r][s] # <<>>
        /\ sentBy[recvLog[r][s][1]] = s
        /\ \A m \in IpcMessages : m.ptr # NULL => m.sender_pid # s

\* =================================================================
\* C15
\* =================================================================

\* C15: (round trip) a well-formed message the current task sends to itself
\* and then receives, with nothing from itself pending before, comes back
\* with the msg_type, flags, data_size and payload it passed to ipc_send;
\* (ping-pong) when the current task b has received a message from a live
\* task a and memory is available, b's echo to a is accepted and lies at the
\* back of a's mailbox with the echoed fields and sender_pid = b, for a to
\* receive.
C15_RoundTripPreserves ==
    \A m \in ValidMessages :
        current_process # NULL
        =>
        LET b == process_table[current_process].pid
            s == ipc_send(K, b, m)
            r == ipc_receive(s.k, b, FALSE)
        IN
        /\ (s.ret = STATUS_SUCCESS /\ Pending(b, b) = <<>>)
           => /\ r.ret = STATUS_SUCCESS
              /\ r.msg.msg_type = m.msg_type
              /\ r.msg.flags = m.flags
              /\ r.msg.data_size = m.data_size
              /\ r.msg.data = m.data
        /\ \A a \in Pids \ {0, b} :
               LET e == ipc_send(K, a, m)
                   q == e.k.message_queues[a].msgs
               IN
               (/\ recvLog[b][a] # <<>>
                /\ process_find(K, a) # NULL
                /\ FreeFrames(K) >= 2)
               => /\ e.ret = STATUS_SUCCESS
                  /\ q # <<>>
                  /\ q[Len(q)].sender_pid = b
                  /\ q[Len(q)].msg_type = m.msg_type
                  /\ q[Len(q)].flags = m.flags
                  /\ q[Len(q)].data_size = m.data_size
                  /\ q[Len(q)].data = m.data

\* =================================================================
\* C12
\* =================================================================

\* C12: two tasks of equal priority that are always runnable get the CPU in
\* turn: once 10 * TIME_QUANTUM ticks have passed since both were handed to
\* the scheduler, their cpu_time differs by at most one tick.
C12_FairShare ==
    scheduler_ticks = 10 * TIME_QUANTUM
    => \A p, q \in Slots :
           (/\ process_used[p]
            /\ process_used[q]
            /\ process_table[p].priority = process_table[q].priority)
           => process_table[p].cpu_time - process_table[q].cpu_time <= 1

\* =================================================================
\* C20
\* =================================================================

\* C20: the frames memory_init marks allocated for the kernel (frames
\* 0..KERNEL_PAGES-1) are allocated in every state, whatever the tasks
\* allocate, free, map or pass to sys_memory_free.
C20_KernelFramesStayAllocated ==
    \A f \in 0..(KERNEL_PAGES - 1) : bitmap_test_bit(K, f)

\* =================================================================
\* C19
\* =================================================================

\* C19: in the page directory of every live task, a present page-table
\* entry with the user bit lies in a page table whose page-directory entry
\* has the user bit too.
C19_UserBitPropagates ==
    \A p \in Slots, pde, pte \in page_tables :
        (/\ process_used[p]
         /\ process_table[p].page_directory # NULL
         /\ pde[1] = process_table[p].page_directory
         /\ EntryPresent(pde[3])
         /\ pte[1] = EntryFrame(pde[3])
         /\ EntryPresent(pte[3])
         /\ EntryUser(pte[3]))
        => EntryUser(pde[3])

\* =================================================================
\* C18
\* =================================================================

\* page_dir maps every kernel frame at its own address, present and
\* supervisor-only.
KernelMapped(k, page_dir) ==
    \A v \in 0..(KERNEL_PAGES - 1) :
        /\ Translated(k, page_dir, v)
        /\ EntryFrame(WalkPTE(k, page_dir, v)) = v
        /\ ~EntryUser(WalkPTE(k, page_dir, v))

\* C18: the page directory of every task that has been handed to the
\* scheduler (Ready or Running, hence one a context switch may load)
\* identity-maps the kernel range with present supervisor-only entries.
C18_KernelMappedEverywhere ==
    \A p \in Slots :
        (/\ process_used[p]
         /\ process_table[p].state \in {PROCESS_READY, PROCESS_RUNNING})
        => KernelMapped(K, process_table[p].page_directory)

\* =================================================================
\* C17
\* =================================================================

\* The page directory of the task in slot p.
DirOf(k, p) == k.process_table[p].page_directory

\* C17: (mapping) when the current task maps a page with sys_memory_map, or
\* gets one mapped by sys_memory_alloc, no other live task that had no
\* translation for that virtual page has one afterwards; (fault) when the
\* current task touches, in ring 3, a page it has no translation for, the
\* exception handler terminates that task without a kernel panic, and every
\* other live task stays alive with the translations it had.
C17_AddressSpacesIsolated ==
    current_process # NULL
    =>
    /\ \A v \in UserPages, f \in MapFrames, fl \in MapFlags, b \in Slots :
           LET k == sys_memory_map(K, v, f, fl).k IN
           (/\ b # current_process
            /\ process_used[b]
            /\ ~Translated(K, DirOf(K, b), v))
           => ~Translated(k, DirOf(k, b), v)
    /\ \A size \in AllocSizes, b \in Slots :
           LET r == sys_memory_alloc(K, size) IN
           (/\ r.ret > 0
            /\ b # current_process
            /\ process_used[b]
            /\ ~Translated(K, DirOf(K, b), r.ret))
           => ~Translated(r.k, DirOf(r.k, b), r.ret)
    /\ \A v \in UserPages, j \in JunkFlags :
           LET h == interrupt_handler_common(K, 14, 27, j) IN
           ~Translated(K, DirOf(K, current_process), v)
           => /\ ~h.panic
              /\ h.k.process_table[current_process].state
                     = PROCESS_TERMINATED
              /\ ~h.k.process_used[current_process]
              /\ \A a \in Slots \ {current_process} :
                     process_used[a]
                     => /\ h.k.process_used[a]
                        /\ h.k.process_table[a].state # PROCESS_TERMINATED
                        /\ Translated(K, DirOf(K, a), v)
                               => Translated(h.k, DirOf(h.k, a), v)

\* =================================================================
\* C21
\* =================================================================

\* C21: a registered syscall issued by the current task, which process_create
\* set out to give the process, memory and IPC capabilities, is dispatched
\* to its handler with ebx, ecx and edx as arguments: syscall_handler leaves
\* the globals and the result of the handler, not a PERMISSION_DENIED of its
\* own; in particular memory_alloc of one page returns the block (no
\* negative status) while a frame is free.
C21_PermittedSyscallDispatched ==
    \A eax \in syscall_table, j \in JunkFlags :
        \A a \in SyscallArgs(eax) :
            current_process # NULL
            => LET r == syscall_handler(K, eax, a[1], a[2], a[3], j)
                   h == CallHandler(K, eax, a[1], a[2], a[3], j)
               IN /\ r = [k |-> h.k, eax |-> h.ret]
                  /\ (eax = SYS_MEMORY_ALLOC /\ a[1] = 1
                        /\ FreeFrames(K) > 0
                      => r.eax >= 0)

\* =================================================================
\* C22
\* =================================================================

\* C22: syscall 0x03 (process_yield) passes the gate without a capability
\* check: whichever task is current, and whatever capabilities it holds or
\* lacks, syscall_handler runs scheduler_yield and returns SUCCESS.
C22_YieldNeedsNoCapability ==
    current_process # NULL
    => syscall_handler(K, SYS_PROCESS_YIELD, 0, 0, 0, 0)
           = [k |-> scheduler_yield(K), eax |-> STATUS_SUCCESS]

\* =================================================================
\* C23
\* =================================================================

C26_OnlyPidZeroChangesCapabilities ==
    \A eax \in syscall_table, j \in JunkFlags :
        \A a \in SyscallArgs(eax) :
            /\ current_process # NULL
            /\ process_table[current_process].pid # 0
            => /\ CallHandler(K, eax, a[1], a[2], a[3], j).k.capabilities
                      = capabilities
               /\ interrupt_handler_common(K, 13, 27, j).k.capabilities
                      = capabilities

\* =================================================================
\* C27
\* =================================================================

\* C27: a CPU exception (vector 0..31) taken in ring 3 (cs = 0x1B), that is
\* while a task runs, does not panic the kernel and terminates the running
\* task: the PCB that was current is Terminated with exit_code equal to the
\* vector and its slot is released.  The same exception taken in ring 0
\* (cs = 0x08) panics the kernel: no task is terminated, nothing in the
\* kernel changes, and execution halts.
C27_ExceptionByRing ==
    \A int_no \in 0..31, j \in JunkFlags :
        LET user == interrupt_handler_common(K, int_no, 27, j)
            kernel == interrupt_handler_common(K, int_no, 8, j)
        IN ~panicked
           => /\ TaskLoaded(K)
                 => /\ ~user.panic
                    /\ current_process # NULL
                    /\ user.k.process_table[current_process].state
                           = PROCESS_TERMINATED
                    /\ user.k.process_table[current_process].exit_code
                           = int_no
                    /\ ~user.k.process_used[current_process]
              /\ kernel = [k |-> K, panic |-> TRUE]

\* =================================================================
\* C29
\* =================================================================

\* C29: after a context switch from prev to next (scheduler_yield choosing
\* a task other than the current one), CR3 holds next's page directory,
\* TSS.esp0 is the top of next's kernel stack, and the stack pointer saved
\* for prev lies within prev's kernel stack.
C29_ContextSwitchLoadsNext ==
    LET prev == current_process
        k == scheduler_yield(K)
        next == k.current_process
    IN next # NULL /\ next # prev
       => /\ k.cr3 = k.process_table[next].page_directory
          /\ k.tss_esp0
                 = k.process_table[next].kernel_stack + KERNEL_STACK_PAGES
          /\ prev # NULL
             => /\ k.process_table[prev].saved_esp
                       >= k.process_table[prev].kernel_stack
                /\ k.process_table[prev].saved_esp
                       < k.process_table[prev].kernel_stack
                             + KERNEL_STACK_PAGES

\* =================================================================
\* C30
\* =================================================================

\* C30: scheduler_yield called while the current task is Running and the
\* ready queue is not empty rotates: the current task is appended at the
\* tail of the ready queue in state Ready, and the former head leaves the
\* queue and becomes the current process in state Running.
C30_YieldRotates ==
    LET cur == current_process
        head == ready_queue_head
        k == scheduler_yield(K)
    IN /\ cur # NULL
       /\ process_table[cur].state = PROCESS_RUNNING
       /\ head # NULL
       /\ head # cur
       => /\ ReadyQueue(k) = Tail(ReadyQueue(K)) \o <<cur>>
          /\ k.process_table[cur].state = PROCESS_READY
          /\ k.current_process = head
          /\ k.process_table[head].state = PROCESS_RUNNING

\* =================================================================
\* C28
\* =================================================================

\* C28: every change of a PCB's state is one of Created -> Ready,
\* Ready -> Running, Running -> Ready, Running -> Blocked, Blocked -> Ready
\* or live -> Terminated; a PCB that is Terminated keeps that state until
\* process_create takes its slot again (the slot is free; the new PCB is
\* Created, or Ready when the same kernel entry adds it to the scheduler).
C28_LifecycleOnly ==
    [][\A p \in Slots :
          LET old == process_table[p].state
              new == process_table'[p].state
          IN old # new
             => \/ ~process_used[p] /\ new = PROCESS_CREATED
                \/ ~process_used[p] /\ process_used'[p] /\ new = PROCESS_READY
                \/ <<old, new>> \in
                      {<<PROCESS_CREATED, PROCESS_READY>>,
                       <<PROCESS_READY, PROCESS_RUNNING>>,
                       <<PROCESS_RUNNING, PROCESS_READY>>,
                       <<PROCESS_RUNNING, PROCESS_BLOCKED>>,
                       <<PROCESS_BLOCKED, PROCESS_READY>>,
                       <<PROCESS_CREATED, PROCESS_TERMINATED>>,
                       <<PROCESS_READY, PROCESS_TERMINATED>>,
                       <<PROCESS_RUNNING, PROCESS_TERMINATED>>,
                       <<PROCESS_BLOCKED, PROCESS_TERMINATED>>}]_vars

\* The first task (PID 1, first slot) has exited and its Terminated PCB's
\* slot has been taken again by a later task, which was queued, dispatched
\* and has blocked in ipc_receive.
C28_Witness ==
    /\ process_used[1]
    /\ process_table[1].pid # 1
    /\ process_table[1].state = PROCESS_BLOCKED
    /\ current_process # 1

\* =================================================================
\* C31
\* =================================================================

\* C31: scheduler_add_process(p) on a newly created task, and
\* scheduler_unblock_process(p) on a Blocked task, leave p at the tail of
\* the ready queue in state Ready, behind every task that was on the queue
\* before the call, in the order they were in.
C31_EnqueueAtTail ==
    \A p \in Slots :
        /\ process_used[p]
           /\ process_table[p].state = PROCESS_CREATED
           /\ ~OnReadyQueue(K, p)
           => LET k == scheduler_add_process(K, p)
              IN /\ ReadyQueue(k) = ReadyQueue(K) \o <<p>>
                 /\ k.process_table[p].state = PROCESS_READY
        /\ process_used[p]
           /\ process_table[p].state = PROCESS_BLOCKED
           /\ ~OnReadyQueue(K, p)
           => LET k == scheduler_unblock_process(K, p)
              IN /\ ReadyQueue(k) = ReadyQueue(K) \o <<p>>
                 /\ k.process_table[p].state = PROCESS_READY

\* =================================================================
\* C32
\* =================================================================

C33_ReceiveFirstMatch ==
    \A from_pid \in Pids, block \in BOOLEAN :
        LET me == process_table[current_process].pid
            q == message_queues[me].msgs
            match == {j \in 1..Len(q) :
                         from_pid = 0 \/ q[j].sender_pid = from_pid}
            r == ipc_receive(K, from_pid, block)
        IN current_process # NULL
           => /\ match # {}
                 => \E i \in match :
                       /\ \A j \in match : i <= j
                       /\ r.ret = STATUS_SUCCESS
                       /\ r.msg.msg_id = q[i].msg_id
                       /\ r.msg.sender_pid = q[i].sender_pid
                       /\ r.k.message_queues[me].msgs
                              = [n \in 1..(Len(q) - 1) |->
                                    IF n < i THEN q[n] ELSE q[n + 1]]
                       /\ \A p \in Pids \ {me} :
                              r.k.message_queues[p] = message_queues[p]
              /\ match = {} /\ ~block
                 => /\ r.ret = STATUS_NOT_FOUND
                    /\ r.msg = NoMessage
                    /\ r.k.message_queues = message_queues

\* The caller's mailbox holds two messages from different senders; asking
\* for the sender of the second returns the second and leaves the first.
C33_Witness ==
    /\ current_process # NULL
    /\ LET me == process_table[current_process].pid
           q == message_queues[me].msgs
       IN /\ Len(q) = 2
          /\ q[1].sender_pid # q[2].sender_pid
          /\ LET r == ipc_receive(K, q[2].sender_pid, FALSE)
             IN /\ r.msg.msg_id = q[2].msg_id
                /\ r.k.message_queues[me].msgs = <<q[1]>>

\* =================================================================
\* C34
\* =================================================================

\* C34: memory_alloc_pages(n), n >= 1, returns the lowest base at which n
\* contiguous frames are free and marks those n frames, and no other, used
\* (none of them was marked before); when there is no such run it returns
\* NULL and leaves the bitmap as it was.
C34_FirstFitContiguous ==
    \A n \in 1..USER_STACK_PAGES :
        LET r == memory_alloc_pages(K, n)
            block(b) == b..(b + n - 1)
            runs == {b \in Frames :
                        /\ block(b) \subseteq Frames
                        /\ block(b) \cap memory_bitmap = {}}
        IN /\ runs # {}
              => \E b \in runs :
                    /\ \A c \in runs : b <= c
                    /\ r.ret = b
                    /\ r.k = [K EXCEPT !.memory_bitmap = @ \cup block(b)]
           /\ runs = {} => r = [k |-> K, ret |-> NULL]

\* Memory is fragmented: the lowest free frame is followed by a used one, so
\* that a block of two frames starts further up, and that block is returned.
C34_Witness ==
    LET r == memory_alloc_pages(K, KERNEL_STACK_PAGES)
        low == bitmap_find_free(K)
    IN /\ low # -1
       /\ low + 1 \in memory_bitmap
       /\ r.ret > low + 1
       /\ r.k.memory_bitmap = memory_bitmap \cup {r.ret, r.ret + 1}

\* =================================================================
\* C35
\* =================================================================

\* C35: a task that process_create returns holds the basic capabilities: a
\* process capability with create and delete, a memory capability with
\* alloc and free and an IPC capability with read and write, whether the
\* kernel creates it at boot with no current process (parent 0) or a running
\* task creates it through sys_process_create.
C35_CreatedHoldsBasicCapabilities ==
    \A by_syscall \in BOOLEAN :
        LET parent == IF by_syscall THEN process_table[current_process].pid
                      ELSE 0
            c == process_create(K, parent)
            pid == c.k.process_table[c.ret].pid
        IN /\ by_syscall => current_process # NULL
           /\ c.ret # NULL
           => /\ capability_check(c.k, pid, CAP_PROCESS,
                                  PERM_CREATE + PERM_DELETE) = STATUS_SUCCESS
              /\ capability_check(c.k, pid, CAP_MEMORY,
                                  PERM_ALLOC + PERM_FREE) = STATUS_SUCCESS
              /\ capability_check(c.k, pid, CAP_IPC,
                                  PERM_READ + PERM_WRITE) = STATUS_SUCCESS

\* =================================================================
\* C36
\* =================================================================

\* C36: scheduler_remove_process(p) and process_exit(p), for any live task
\* p (the current one and a Blocked one, which are not on the ready queue,
\* included), take no other task off the ready queue, except the head when
\* it is dispatched in place of the current task, and keep the tasks that
\* remain in their order.
C36_RemoveKeepsOthers ==
    \A p \in Slots, j \in JunkFlags :
        LET before == ReadyQueue(K)
            Stays(k) ==
                LET Other(x) == x # p /\ x # k.current_process
                IN SelectSeq(before, Other)
            Kept(k) ==
                LET Old(x) == \E i \in 1..Len(before) : before[i] = x
                IN SelectSeq(ReadyQueue(k), Old)
            removed == scheduler_remove_process(K, p)
            exited == process_exit(K, p, 0, j)
        IN process_used[p] /\ current_process # NULL
           => /\ Kept(removed) = Stays(removed)
              /\ Kept(exited) = Stays(exited)

\* =================================================================
\* C37
\* =================================================================

\* C37: whenever ipc_send by the current task returns SUCCESS, the message
\* sent (the one numbered with the msg_id the call consumed, from the
\* caller, with the caller's type and payload) is the last message of the
\* receiver's mailbox when the call returns.
C37_SuccessMeansQueued ==
    \A to \in Pids, m \in UserMessages :
        LET r == ipc_send(K, to, m)
            q == r.k.message_queues[to].msgs
        IN current_process # NULL /\ r.ret = STATUS_SUCCESS
           => /\ Len(q) > 0
              /\ q[Len(q)].msg_id = next_msg_id
              /\ q[Len(q)].sender_pid = process_table[current_process].pid
              /\ q[Len(q)].msg_type = m.msg_type
              /\ q[Len(q)].data = m.data

\* =================================================================
\* C38
\* =================================================================

\* C38: IPC leaks no frames.  After an ipc_send, an ipc_receive or a
\* process_exit, every frame the call has newly allocated backs a message
\* that is queued in some mailbox (or is the header of a mailbox), and the
\* frame of every message that the call has taken out of a mailbox, because
\* it was received, dropped from a full mailbox or cleared at exit, is free.
C38_IpcLeaksNoFrames ==
    LET MsgFrames(k) ==
            {k.message_queues[p].msgs[i].frame :
                 <<p, i>> \in {x \in Pids \X (1..QUEUE_MAX_COUNT) :
                                  x[2] <= Len(k.message_queues[x[1]].msgs)}}
        Headers(k) == {k.message_queues[p].frame : p \in Pids} \ {NULL}
        NoLeak(k) ==
            /\ (k.memory_bitmap \ memory_bitmap)
                   \subseteq (MsgFrames(k) \cup Headers(k))
            /\ (MsgFrames(K) \ MsgFrames(k)) \cap k.memory_bitmap = {}
    IN current_process # NULL
       => /\ \A to \in Pids, m \in UserMessages :
                 NoLeak(ipc_send(K, to, m).k)
          /\ \A from \in Pids, b \in BOOLEAN :
                 NoLeak(ipc_receive(K, from, b).k)
          /\ \A j \in JunkFlags :
                 NoLeak(process_exit(K, current_process, 0, j))

\* C39: a process_create that fails returns NULL and leaves the used PCB
\* slots, the frame bitmap and the ready queue as they were before the call,
\* and sys_process_create then returns STATUS_OUT_OF_MEMORY.
C39_FailedCreateChangesNothing ==
    \A parent_pid \in Pids :
        process_create(K, parent_pid).ret = NULL =>
            /\ process_create(K, parent_pid).k.process_used = process_used
            /\ process_create(K, parent_pid).k.memory_bitmap = memory_bitmap
            /\ ReadyQueue(process_create(K, parent_pid).k) = ReadyQueue(K)
            /\ current_process # NULL =>
                   sys_process_create(K).ret = STATUS_OUT_OF_MEMORY

\* The timer IRQ of a system that runs for ever.  The PIT raises IRQ 0 at a
\* fixed rate for as long as the machine is on, so the tick count and the
\* accounting field cpu_time grow without end; the scheduler reads the tick
\* count only through scheduler_ticks % TIME_QUANTUM and never reads cpu_time.
\* The tick count is therefore kept modulo TickPeriod, a whole number of quanta,
\* and cpu_time stops counting at MaxCpuTime.
TickPeriod == TickQuanta * TIME_QUANTUM

TickWindow(k) ==
    [k EXCEPT !.scheduler_ticks = @ % TickPeriod,
              !.process_table =
                  [p \in Slots |->
                      [@[p] EXCEPT !.cpu_time =
                          IF @ > MaxCpuTime THEN MaxCpuTime ELSE @]]]

TimerIrqForever ==
    /\ Becomes(TickWindow(scheduler_tick(K)))
    /\ UNCHANGED <<created, recvLog>>

\* Boot creates the services; afterwards the tasks yield, block in a receive
\* or keep computing, and the timer keeps ticking.
NextFair ==
    \/ StartService(MaxFairCreates)
    \/ SysProcessYield
    \/ \E from \in Pids : IpcReceive(from, TRUE, FALSE)
    \/ TimerIrqForever

SpecFair == Init /\ [][NextFair]_vars /\ WF_vars(TimerIrqForever)

\* C40: no starvation: while timer ticks keep arriving, every task that is
\* Ready on the ready queue is eventually the current process, in state
\* Running.
C40_NoStarvation ==
    \A p \in Slots :
        (process_used[p] /\ process_table[p].state = PROCESS_READY
                         /\ OnReadyQueue(K, p))
            ~> (current_process = p
                /\ process_table[p].state = PROCESS_RUNNING)

====
